---------------------------- MODULE Spec2Model ----------------------------
(***************************************************************************)
(* A model of EigenOpt: the Simplex engine (simplex.hxx,                   *)
(* simplex_internal.hxx), the kernel projection (kernel_projection.hxx)    *)
(* and the active-set quadratic programming solver                         *)
(* (quadratic_programming.hxx).                                            *)
(*                                                                         *)
(* Scalars are exact rationals <<n, d>> (d > 0, lowest terms): the code's  *)
(* comparisons against small_number / tol are kept, rounding error is not  *)
(* modelled.  A matrix is a record [nr, nc, e] (e: the sequence of rows),  *)
(* so that a matrix with zero rows still has a column count, as an         *)
(* Eigen::Matrix has.                                                      *)
(***************************************************************************)
EXTENDS Integers, Sequences, FiniteSets, TLC

(***************************************************************************)
(* Rational scalars                                                        *)
(***************************************************************************)
Abs(i) == IF i < 0 THEN -i ELSE i

RECURSIVE GCD(_, _)
GCD(a, b) == IF b = 0 THEN a ELSE GCD(b, a % b)

Norm(n, d) ==
  LET reduce(g, s) == <<s * (n \div g), s * (d \div g)>>
  IN  reduce(GCD(Abs(n), Abs(d)), IF d < 0 THEN -1 ELSE 1)

R(i) == <<i, 1>>
Zero == <<0, 1>>
One == <<1, 1>>
RAdd(a, b) == Norm(a[1] * b[2] + b[1] * a[2], a[2] * b[2])
RNeg(a) == <<-a[1], a[2]>>
RSub(a, b) == Norm(a[1] * b[2] - b[1] * a[2], a[2] * b[2])
RMul(a, b) == Norm(a[1] * b[1], a[2] * b[2])
RDiv(a, b) == Norm(a[1] * b[2], a[2] * b[1])
RLt(a, b) == a[1] * b[2] < b[1] * a[2]
RLe(a, b) == a[1] * b[2] <= b[1] * a[2]
RAbs(a) == <<Abs(a[1]), a[2]>>

(***************************************************************************)
(* Dense vectors and matrices (Eigen::Matrix)                              *)
(***************************************************************************)
\* A function constructor [i \in 1..n |-> e] as an explicit tuple.  The two
\* denote the same value; the tuple is computed once, where it is built.
Eager(s) == s \o << >>

RECURSIVE Dot(_, _)
Dot(u, v) ==
  IF Len(u) = 0 THEN Zero
  ELSE RAdd(RMul(Head(u), Head(v)), Dot(Tail(u), Tail(v)))

VZero(n) == Eager([i \in 1..n |-> Zero])
VAdd(u, v) == Eager([i \in 1..Len(u) |-> RAdd(u[i], v[i])])
VSub(u, v) == Eager([i \in 1..Len(u) |-> RSub(u[i], v[i])])
VScale(k, u) == Eager([i \in 1..Len(u) |-> RMul(k, u[i])])
VNeg(u) == Eager([i \in 1..Len(u) |-> RNeg(u[i])])

Mat(nr, nc, e) ==
  [nr |-> nr, nc |-> nc, e |-> Eager([i \in 1..nr |-> Eager(e[i])])]
MZero(nr, nc) == Mat(nr, nc, [i \in 1..nr |-> VZero(nc)])
MIdentity(n) ==
  Mat(n, n, [i \in 1..n |-> [j \in 1..n |-> IF i = j THEN One ELSE Zero]])
MCol(M, j) == Eager([i \in 1..M.nr |-> M.e[i][j]])
MTranspose(M) == Mat(M.nc, M.nr, [j \in 1..M.nc |-> MCol(M, j)])
MVec(M, v) == Eager([i \in 1..M.nr |-> Dot(M.e[i], v)])
MMul(M, N) ==
  Mat(M.nr, N.nc, [i \in 1..M.nr |-> [j \in 1..N.nc |-> Dot(M.e[i], MCol(N, j))]])
MSub(M, N) ==
  Mat(M.nr, M.nc, [i \in 1..M.nr |-> VSub(M.e[i], N.e[i])])
\* M with its rows restricted to the first k (conservativeResize(k, cols)).
MTopRows(M, k) == Mat(k, M.nc, SubSeq(M.e, 1, k))
\* M with one more row (conservativeResize(rows+1, cols) and row assignment).
MAppendRow(M, row) == Mat(M.nr + 1, M.nc, Append(M.e, row))
\* M with column j as its only column.
MColMat(M, j) == Mat(M.nr, 1, [i \in 1..M.nr |-> <<M.e[i][j]>>])
\* [M | c]: M with the column vector c appended.
MAppendCol(M, c) == Mat(M.nr, M.nc + 1, [i \in 1..M.nr |-> Append(M.e[i], c[i])])
\* The first k columns of M.
MLeftCols(M, k) == Mat(M.nr, k, [i \in 1..M.nr |-> SubSeq(M.e[i], 1, k)])

\* maxCoeff() of a non-empty vector.
RECURSIVE MaxCoeff(_)
MaxCoeff(v) ==
  IF Len(v) = 1 THEN v[1]
  ELSE LET larger(m) == IF RLt(m, v[1]) THEN v[1] ELSE m
       IN  larger(MaxCoeff(Tail(v)))

\* DenseBase::isZero(prec): every coefficient has |c| <= prec.
IsZeroVec(v, prec) == \A i \in 1..Len(v) : RLe(RAbs(v[i]), prec)

(***************************************************************************)
(* Library primitives (Eigen, outside the repository): the SVD-based       *)
(* least-squares solve and the rank.  JacobiSVD::solve(b) returns the      *)
(* minimum-norm least-squares solution pinv(M)*b; the pseudo-inverse of a  *)
(* rational matrix is rational and is computed here column by column       *)
(* (Greville).  The rank is the exact rank.                                *)
(***************************************************************************)
IsZeroExact(v) == \A i \in 1..Len(v) : v[i][1] = 0

RECURSIVE PInvCols(_, _)
PInvCols(M, k) ==
  IF k = 0 THEN Mat(0, M.nr, << >>)
  ELSE
    LET rows(Pk, dd, b) ==
          Mat(k, M.nr,
              [i \in 1..k |->
                 IF i = k THEN b ELSE VSub(Pk.e[i], VScale(dd[i], b))])
        last_row(Pk, dd, c) ==
          rows(Pk, dd,
               IF ~IsZeroExact(c)
               THEN VScale(RDiv(One, Dot(c, c)), c)
               ELSE VScale(RDiv(One, RAdd(One, Dot(dd, dd))),
                           MVec(MTranspose(Pk), dd)))
        residual(a, Pk, dd) ==
          last_row(Pk, dd, VSub(a, MVec(MLeftCols(M, k - 1), dd)))
        step(a, Pk) == residual(a, Pk, MVec(Pk, a))
    IN  step(MCol(M, k), PInvCols(M, k - 1))

PInv(M) == PInvCols(M, M.nc)

\* svd.solve(b) / jacobiSvd(...).solve(b) / bdcSvd(...).solve(b)
SvdSolve(M, b) == MVec(PInv(M), b)

\* svd.rank(): the number of columns that are independent of the ones
\* before them.
RECURSIVE RankCols(_, _)
RankCols(M, k) ==
  IF k = 0 THEN 0
  ELSE LET residual(a) ==
             VSub(a, MVec(MLeftCols(M, k - 1), MVec(PInvCols(M, k - 1), a)))
       IN  RankCols(M, k - 1)
             + (IF IsZeroExact(residual(MCol(M, k))) THEN 0 ELSE 1)

Rank(M) == RankCols(M, M.nc)

(***************************************************************************)
(* Simplex engine: simplex_internal.hxx.  Rows and columns are numbered    *)
(* from 1 here (from 0 in the code); a VariableDomain's idx keeps the      *)
(* code's "no row" value -1.                                               *)
(***************************************************************************)
\* The tolerance the callers pass (tests: 1e-6 and 1e-9); any value far below
\* the magnitudes of the problem data plays the same part.
small_number == <<1, 1000>>
\* The penalty of the penalty method (tests: 1e6), "several orders of
\* magnitude larger than the values in the objective and constraints".
large_number == <<10000, 1>>
\* large_number <= 0 selects the two-steps method (the default is -1).
no_penalty == <<-1, 1>>

\* lambda "zero" of deduce_variables_domains.
zero(v, small) == RLt(RNeg(small), v) /\ RLt(v, small)

NoDomain == [non_negative |-> FALSE, non_positive |-> FALSE, idx |-> -1]

\* The inner column scan: -1 (no non-zero entry), -2 (several), or the column.
nzcol_of(Crow, small) ==
  LET nz == {c \in 1..Len(Crow) : ~zero(Crow[c], small)}
  IN  IF nz = {} THEN -1
      ELSE IF Cardinality(nz) = 1 THEN CHOOSE c \in nz : TRUE
      ELSE -2

\* One iteration of the row loop: [ok, domains].
deduce_row(C, d, row, domains, small) ==
  LET upper(nzcol, c, d1) ==
        IF RLt(Zero, c) /\ RLe(d[row], Zero)
        THEN IF d1[nzcol].non_negative
             THEN [ok |-> FALSE, domains |-> d1]
             ELSE [ok |-> TRUE,
                   domains |-> [d1 EXCEPT ![nzcol].non_positive = TRUE,
                                          ![nzcol].idx = row]]
        ELSE [ok |-> TRUE, domains |-> d1]
      lower(nzcol, c) ==
        upper(nzcol, c,
              IF RLt(c, Zero) /\ RLe(d[row], Zero)
              THEN [domains EXCEPT ![nzcol].non_negative = TRUE,
                                   ![nzcol].idx = row]
              ELSE domains)
      scan(nzcol) ==
        IF nzcol = -1 THEN [ok |-> FALSE, domains |-> domains]
        ELSE IF nzcol = -2 THEN [ok |-> TRUE, domains |-> domains]
        ELSE lower(nzcol, C.e[row][nzcol])
  IN  scan(nzcol_of(C.e[row], small))

RECURSIVE deduce_from(_, _, _, _, _)
deduce_from(C, d, row, domains, small) ==
  IF row > C.nr THEN [ok |-> TRUE, domains |-> domains]
  ELSE LET next(r) ==
             IF ~r.ok THEN r ELSE deduce_from(C, d, row + 1, r.domains, small)
       IN  next(deduce_row(C, d, row, domains, small))

deduce_variables_domains(C, d, small) ==
  deduce_from(C, d, 1, Eager([i \in 1..C.nc |-> NoDomain]), small)

\* The columns of T, in order: <<variable, sign>>.
RECURSIVE T_columns(_, _)
T_columns(domains, i) ==
  IF i > Len(domains) THEN << >>
  ELSE (IF ~domains[i].non_positive THEN << <<i, 1>> >> ELSE << >>)
       \o (IF ~domains[i].non_negative THEN << <<i, -1>> >> ELSE << >>)
       \o T_columns(domains, i + 1)

transformation_matrix_from_domains(domains) ==
  LET n == Len(domains)
      T(cols) ==
        Mat(n, Len(cols),
            [i \in 1..n |-> [j \in 1..Len(cols) |->
               IF cols[j][1] = i THEN R(cols[j][2]) ELSE Zero]])
  IN  T(T_columns(domains, 1))

\* [ok, T]
transformation_matrix(C, d, small) ==
  LET build(r) ==
        IF ~r.ok THEN [ok |-> FALSE, T |-> MZero(C.nc, 0)]
        ELSE [ok |-> TRUE, T |-> transformation_matrix_from_domains(r.domains)]
  IN  build(deduce_variables_domains(C, d, small))

\* A faulty variant of the pivot: the leaving row is not normalized.
pivot_without_normalizing(tableau, entering_variable, leaving_variable) ==
  Mat(tableau.nr, tableau.nc,
      [row \in 1..tableau.nr |->
         IF row = leaving_variable \/ row = tableau.nr THEN tableau.e[row]
         ELSE VSub(tableau.e[row],
                   VScale(tableau.e[row][entering_variable],
                          tableau.e[leaving_variable]))])

pivot(tableau, entering_variable, leaving_variable) ==
  LET eliminate(lrow) ==
        Mat(tableau.nr, tableau.nc,
            [row \in 1..tableau.nr |->
               IF row = leaving_variable THEN lrow
               ELSE IF row = tableau.nr THEN tableau.e[row]
               ELSE VSub(tableau.e[row],
                         VScale(tableau.e[row][entering_variable], lrow))])
  IN  eliminate(VScale(RDiv(One, tableau.e[leaving_variable][entering_variable]),
                       tableau.e[leaving_variable]))

\* minCoeff(&index): the first position of the smallest coefficient.
MinCoeffIndex(v) ==
  CHOOSE i \in 1..Len(v) :
    /\ \A j \in 1..Len(v) : RLe(v[i], v[j])
    /\ \A j \in 1..(i - 1) : RLt(v[i], v[j])

\* The ratio test: the first row with the smallest ratio among the rows whose
\* entry in the entering column exceeds small_number; 0 (the code's -1) if none.
leaving_row_of(tableau, entering_col, small) ==
  LET m == tableau.nr - 1
      n == tableau.nc - 1
      first_smallest(cand, ratio) ==
        IF cand = {} THEN 0
        ELSE CHOOSE row \in cand :
               \A q \in cand : /\ RLe(ratio[row], ratio[q])
                               /\ q < row => RLt(ratio[row], ratio[q])
  IN  first_smallest(
        {row \in 1..m : RLt(small, tableau.e[row][entering_col])},
        Eager([row \in 1..m |->
                 IF RLt(small, tableau.e[row][entering_col])
                 THEN RDiv(tableau.e[row][n + 1], tableau.e[row][entering_col])
                 ELSE Zero]))

\* The number of pivots after which a run of the inner loop is reported as not
\* terminating (the code has no such cap).
MaxPivots == 40

\* A faulty variant of the loop: a column without a leaving row ends the
\* loop as if the optimum had been reached.
RECURSIVE simplex_loop_unbounded_as_optimal(_, _, _, _)
simplex_loop_unbounded_as_optimal(tableau, basic_variables, small, iters) ==
  LET m == tableau.nr - 1
      n == tableau.nc - 1
      halt(ok, why) ==
        [ok |-> ok, tableau |-> tableau,
         basic_variables |-> basic_variables, halt |-> why]
      pivoted(entering_col, leaving_row, t1) ==
        simplex_loop_unbounded_as_optimal(
          [t1 EXCEPT !.e[m + 1] =
             VSub(t1.e[m + 1],
                  VScale(t1.e[m + 1][entering_col], t1.e[leaving_row]))],
          [basic_variables EXCEPT ![leaving_row] = entering_col],
          small, iters + 1)
      leave(entering_col, leaving_row) ==
        IF leaving_row = 0 THEN halt(TRUE, "optimal")
        ELSE pivoted(entering_col, leaving_row,
                     pivot(tableau, entering_col, leaving_row))
      enter(entering_col) ==
        IF ~RLt(tableau.e[m + 1][entering_col], RNeg(small))
        THEN halt(TRUE, "optimal")
        ELSE IF iters >= MaxPivots THEN halt(FALSE, "no termination")
        ELSE leave(entering_col, leaving_row_of(tableau, entering_col, small))
  IN  enter(MinCoeffIndex(SubSeq(tableau.e[m + 1], 1, n)))

\* The while loop of simplex(): [ok, tableau, basic_variables, halt].
RECURSIVE simplex_loop(_, _, _, _)
simplex_loop(tableau, basic_variables, small, iters) ==
  LET m == tableau.nr - 1
      n == tableau.nc - 1
      halt(ok, why) ==
        [ok |-> ok, tableau |-> tableau,
         basic_variables |-> basic_variables, halt |-> why]
      pivoted(entering_col, leaving_row, t1) ==
        simplex_loop([t1 EXCEPT !.e[m + 1] =
                        VSub(t1.e[m + 1],
                             VScale(t1.e[m + 1][entering_col], t1.e[leaving_row]))],
                     [basic_variables EXCEPT ![leaving_row] = entering_col],
                     small, iters + 1)
      leave(entering_col, leaving_row) ==
        IF leaving_row = 0 THEN halt(FALSE, "unbounded")
        ELSE pivoted(entering_col, leaving_row,
                     pivot(tableau, entering_col, leaving_row))
      enter(entering_col) ==
        IF ~RLt(tableau.e[m + 1][entering_col], RNeg(small))
        THEN halt(TRUE, "optimal")
        ELSE IF iters >= MaxPivots THEN halt(FALSE, "no termination")
        ELSE leave(entering_col, leaving_row_of(tableau, entering_col, small))
  IN  enter(MinCoeffIndex(SubSeq(tableau.e[m + 1], 1, n)))

\* A faulty variant of simplex(): the loop is never entered.
simplex_without_pivoting(tableau, basic_variables, small) ==
  [ok |-> TRUE, tableau |-> tableau, basic_variables |-> basic_variables,
   halt |-> "optimal"]

simplex(tableau, basic_variables, small) ==
  simplex_loop(tableau, basic_variables, small, 0)

\* The number of negative entries among the first k of d.
RECURSIVE CountNegative(_, _)
CountNegative(d, k) ==
  IF k = 0 THEN 0
  ELSE CountNegative(d, k - 1) + (IF RLt(d[k], Zero) THEN 1 ELSE 0)

\* [tableau, basic_variables]
create_tableau(C, d) ==
  LET m == C.nr
      n == C.nc
      row(i, dcol, ia) ==
        [j \in 1..dcol |->
           IF RLt(d[i], Zero)
           THEN IF j <= n THEN RNeg(C.e[i][j])
                ELSE IF j = n + i THEN R(-1)
                ELSE IF j = n + m + ia + 1 THEN One
                ELSE IF j = dcol THEN RNeg(d[i])
                ELSE Zero
           ELSE IF j <= n THEN C.e[i][j]
                ELSE IF j = n + i THEN One
                ELSE IF j = dcol THEN d[i]
                ELSE Zero]
      fill(dcol) ==
        [tableau |->
           Mat(m + 1, dcol,
               [i \in 1..(m + 1) |->
                  IF i <= m THEN row(i, dcol, CountNegative(d, i - 1))
                  ELSE VZero(dcol)]),
         basic_variables |->
           Eager([i \in 1..m |->
                    IF RLt(d[i], Zero)
                    THEN n + m + CountNegative(d, i - 1) + 1 ELSE n + i])]
  IN  fill(n + m + CountNegative(d, m) + 1)

\* The loop of eliminate_objective from row i on: the last row.
RECURSIVE eliminate_from(_, _, _, _)
eliminate_from(tableau, basic_variables, last_row, i) ==
  IF i > Len(basic_variables) THEN last_row
  ELSE eliminate_from(tableau, basic_variables,
         VSub(last_row, VScale(last_row[basic_variables[i]], tableau.e[i])),
         i + 1)

eliminate_objective(tableau, basic_variables) ==
  [tableau EXCEPT !.e[tableau.nr] =
     eliminate_from(tableau, basic_variables, tableau.e[tableau.nr], 1)]

\* The bottom row with `weight` on the column of every basic artificial
\* variable (the first loop of two_steps_method and of penalty_method).
artificial_weights(tableau, basic_variables, nv, weight) ==
  LET m == tableau.nr - 1
  IN  [tableau EXCEPT !.e[m + 1] =
         Eager([j \in 1..tableau.nc |->
            IF j > nv + m /\ \E i \in 1..m : basic_variables[i] = j
            THEN weight ELSE tableau.e[m + 1][j]])]

\* "After the solution, no artificial variable should be greater than zero."
artificial_left(tableau, basic_variables, nv, small) ==
  LET m == tableau.nr - 1
  IN  \E i \in 1..m : /\ basic_variables[i] > nv + m
                      /\ RLt(small, tableau.e[i][tableau.nc])

\* The first non-basic, non-artificial column with a non-zero coefficient in
\* row i; 0 (the code's -1) if there is none.
swap_candidate(tableau, basic_variables, nv, i, small) ==
  LET m == tableau.nr - 1
      first(cand) ==
        IF cand = {} THEN 0 ELSE CHOOSE j \in cand : \A k \in cand : j <= k
  IN  first({j \in 1..(nv + m) :
               /\ \A k \in 1..m : basic_variables[k] # j
               /\ \/ RLt(small, tableau.e[i][j])
                  \/ RLt(tableau.e[i][j], RNeg(small))})

\* "Swap basic artificial variables with non-basic ones", from row i on:
\* [ok, tableau, basic_variables].
RECURSIVE swap_artificials(_, _, _, _, _)
swap_artificials(tableau, basic_variables, nv, i, small) ==
  LET m == tableau.nr - 1
      swap(candidate) ==
        IF candidate = 0
        THEN [ok |-> FALSE, tableau |-> tableau,
              basic_variables |-> basic_variables]
        ELSE swap_artificials(pivot(tableau, candidate, i),
                              [basic_variables EXCEPT ![i] = candidate],
                              nv, i + 1, small)
  IN  IF i > m
      THEN [ok |-> TRUE, tableau |-> tableau, basic_variables |-> basic_variables]
      ELSE IF basic_variables[i] <= nv + m
      THEN swap_artificials(tableau, basic_variables, nv, i + 1, small)
      ELSE swap(swap_candidate(tableau, basic_variables, nv, i, small))

\* bottomLeftCorner(1, nv) = objective; with `clear`, also
\* bottomRightCorner(1, m+1).setZero().
set_objective(tableau, objective, nv, clear) ==
  [tableau EXCEPT !.e[tableau.nr] =
     Eager([j \in 1..tableau.nc |->
        IF j <= nv THEN objective[j]
        ELSE IF clear THEN Zero ELSE tableau.e[tableau.nr][j]])]

\* "We can remove the artificial variables from the tableau."
drop_artificials(tableau, nv) ==
  LET m == tableau.nr - 1
  IN  Mat(m + 1, nv + m + 1,
          [i \in 1..(m + 1) |->
             [j \in 1..(nv + m + 1) |->
                IF j <= nv + m THEN tableau.e[i][j]
                ELSE tableau.e[i][tableau.nc]]])

\* [ok, tableau, basic_variables, halt]
two_steps_method(objective, tableau, basic_variables, na, small) ==
  LET m == tableau.nr - 1
      nv == tableau.nc - m - na - 1
      infeasible(r) ==
        [ok |-> FALSE, tableau |-> r.tableau,
         basic_variables |-> r.basic_variables, halt |-> "infeasible"]
      \* Second step: the original objective, without artificial variables.
      second(sw) ==
        IF ~sw.ok THEN infeasible(sw)
        ELSE simplex(
               eliminate_objective(
                 set_objective(drop_artificials(sw.tableau, nv), objective, nv, TRUE),
                 sw.basic_variables),
               sw.basic_variables, small)
      \* After the first step.
      first(s1) ==
        IF ~s1.ok THEN s1
        ELSE IF artificial_left(s1.tableau, s1.basic_variables, nv, small)
        THEN infeasible(s1)
        ELSE second(swap_artificials(s1.tableau, s1.basic_variables, nv, 1, small))
  IN  IF na > 0
      THEN first(simplex(
                   eliminate_objective(
                     artificial_weights(tableau, basic_variables, nv, One),
                     basic_variables),
                   basic_variables, small))
      ELSE simplex(set_objective(tableau, objective, nv, FALSE),
                   basic_variables, small)

\* A faulty variant of penalty_method(): the objective is not copied into the
\* tableau.
penalty_method_without_objective(objective, tableau, basic_variables, na, small, large) ==
  LET m == tableau.nr - 1
      nv == tableau.nc - m - na - 1
      solved(s1) ==
        IF ~s1.ok THEN s1
        ELSE IF artificial_left(s1.tableau, s1.basic_variables, nv, small)
        THEN [s1 EXCEPT !.ok = FALSE, !.halt = "infeasible"]
        ELSE s1
  IN  solved(simplex(
               eliminate_objective(
                 artificial_weights(tableau, basic_variables, nv, large),
                 basic_variables),
               basic_variables, small))

\* [ok, tableau, basic_variables, halt]
penalty_method(objective, tableau, basic_variables, na, small, large) ==
  LET m == tableau.nr - 1
      nv == tableau.nc - m - na - 1
      solved(s1) ==
        IF ~s1.ok THEN s1
        ELSE IF artificial_left(s1.tableau, s1.basic_variables, nv, small)
        THEN [s1 EXCEPT !.ok = FALSE, !.halt = "infeasible"]
        ELSE s1
  IN  solved(simplex(
               eliminate_objective(
                 artificial_weights(
                   set_objective(tableau, objective, nv, FALSE),
                   basic_variables, nv, large),
                 basic_variables),
               basic_variables, small))

\* One test of the condition of the while loop of simplex() and, where it
\* holds, one pass through the body: [done, ok, tableau, basic_variables].
simplex_iteration(tableau, basic_variables, small) ==
  LET m == tableau.nr - 1
      n == tableau.nc - 1
      stop(ok) ==
        [done |-> TRUE, ok |-> ok, tableau |-> tableau,
         basic_variables |-> basic_variables]
      pivoted(entering_col, leaving_row, t1) ==
        [done |-> FALSE, ok |-> TRUE,
         tableau |-> [t1 EXCEPT !.e[m + 1] =
                        VSub(t1.e[m + 1],
                             VScale(t1.e[m + 1][entering_col], t1.e[leaving_row]))],
         basic_variables |-> [basic_variables EXCEPT ![leaving_row] = entering_col]]
      leave(entering_col, leaving_row) ==
        IF leaving_row = 0 THEN stop(FALSE)
        ELSE pivoted(entering_col, leaving_row,
                     pivot(tableau, entering_col, leaving_row))
      enter(entering_col) ==
        IF ~RLt(tableau.e[m + 1][entering_col], RNeg(small)) THEN stop(TRUE)
        ELSE leave(entering_col, leaving_row_of(tableau, entering_col, small))
  IN  enter(MinCoeffIndex(SubSeq(tableau.e[m + 1], 1, n)))

\* The body of the loop "Swap basic artificial variables with non-basic
\* ones" for row i: [ok, pivoted, tableau, basic_variables].
swap_step(tableau, basic_variables, nv, i, small) ==
  LET m == tableau.nr - 1
      keep(ok) ==
        [ok |-> ok, pivoted |-> FALSE, tableau |-> tableau,
         basic_variables |-> basic_variables]
      swap(candidate) ==
        IF candidate = 0 THEN keep(FALSE)
        ELSE [ok |-> TRUE, pivoted |-> TRUE,
              tableau |-> pivot(tableau, candidate, i),
              basic_variables |-> [basic_variables EXCEPT ![i] = candidate]]
  IN  IF basic_variables[i] <= nv + m THEN keep(TRUE)
      ELSE swap(swap_candidate(tableau, basic_variables, nv, i, small))

\* The tableau the second step of two_steps_method starts from, after a
\* first step: the artificial columns removed, the objective set and
\* eliminated.
second_step_tableau(objective, tableau, basic_variables, nv) ==
  eliminate_objective(
    set_objective(drop_artificials(tableau, nv), objective, nv, TRUE),
    basic_variables)

\* The tableau on which a method first runs the inner loop, and the run it
\* is: [stage, tableau].
method_start(objective, tableau, basic_variables, na, large) ==
  LET m == tableau.nr - 1
      nv == tableau.nc - m - na - 1
  IN  IF RLt(Zero, large)
      THEN [stage |-> "penalty",
            tableau |-> eliminate_objective(
                          artificial_weights(
                            set_objective(tableau, objective, nv, FALSE),
                            basic_variables, nv, large),
                          basic_variables)]
      ELSE IF na > 0
      THEN [stage |-> "first",
            tableau |-> eliminate_objective(
                          artificial_weights(tableau, basic_variables, nv, One),
                          basic_variables)]
      ELSE [stage |-> "second",
            tableau |-> set_objective(tableau, objective, nv, FALSE)]

(***************************************************************************)
(* simplex.hxx: minimize.  A result is [ok, x, halt_reason]; x is the      *)
(* caller's vector, which the call overwrites only where the code assigns  *)
(* it.                                                                     *)
(***************************************************************************)
\* The rows of _C that are kept, in order ("Remove degenerate constraints").
RECURSIVE kept_rows(_, _, _)
kept_rows(C, i, small) ==
  IF i > C.nr THEN << >>
  ELSE (IF ~IsZeroVec(C.e[i], small) THEN <<i>> ELSE << >>)
       \o kept_rows(C, i + 1, small)

\* A degenerate row 0*x <= d_i with d_i < 0.
infeasible_degenerate(C, d, small) ==
  \E i \in 1..C.nr : IsZeroVec(C.e[i], small) /\ RLt(d[i], Zero)

\* Read the solution from the tableau.
read_solution(tableau, basic_variables, nv) ==
  Eager([j \in 1..nv |->
     IF \E i \in 1..(tableau.nr - 1) : basic_variables[i] = j
     THEN tableau.e[CHOOSE i \in 1..(tableau.nr - 1) : basic_variables[i] = j]
                   [tableau.nc]
     ELSE Zero])

\* A faulty variant of the test: a problem without constraints goes on.
no_constraints_never(C) == FALSE

\* if(_C.rows() == 0)
no_constraints(C) == C.nr = 0

\* minimize(f, C, d, x, halt_reason, small_number, large_number)
minimize_ineq(f_in, C_in, d_in, x, small, large) ==
  LET \* tableau: the tableau the method has left, none if none was built.
      fail(why) ==
        [ok |-> FALSE, x |-> x, halt_reason |-> why, tableau |-> MZero(0, 0)]
      \* "Retrieve the solution" and "Transform back into the original domain".
      retrieve(T, r) ==
        IF ~r.ok
        THEN [ok |-> FALSE, x |-> x, halt_reason |-> r.halt,
              tableau |-> r.tableau]
        ELSE [ok |-> TRUE,
              x |-> MVec(T, read_solution(r.tableau, r.basic_variables, T.nc)),
              halt_reason |-> "Optimization completed successfully",
              tableau |-> r.tableau]
      \* The call of the method, on the tableau ct of C*T and d.
      method(fs, T, m, ct) ==
        retrieve(T,
          IF RLt(Zero, large)
          THEN penalty_method(fs, ct.tableau, ct.basic_variables,
                              ct.tableau.nc - T.nc - m - 1, small, large)
          ELSE two_steps_method(fs, ct.tableau, ct.basic_variables,
                                ct.tableau.nc - T.nc - m - 1, small))
      \* The problem in the non-negative variables w, x = T*w.
      transformed(f, C, d, tm) ==
        IF ~tm.ok THEN fail("infeasible")
        ELSE method(MVec(MTranspose(tm.T), f), tm.T, C.nr,
                    create_tableau(MMul(C, tm.T), d))
      reduced(f, C, d) ==
        transformed(f, C, d, transformation_matrix(C, d, small))
      \* The rows `keep` of the constraints.
      kept(f, keep) ==
        reduced(f,
                Mat(Len(keep), C_in.nc, [i \in 1..Len(keep) |-> C_in.e[keep[i]]]),
                Eager([i \in 1..Len(keep) |-> d_in[keep[i]]]))
  IN  IF no_constraints(C_in)
      THEN fail("No constraints given, the problem is ill-defined")
      ELSE IF infeasible_degenerate(C_in, d_in, small)
           THEN fail("Found infeasible degenerate constraint")
      ELSE kept(IF Len(f_in) = 0 THEN VZero(C_in.nc) ELSE f_in,
                kept_rows(C_in, 1, small))

\* What the inequality-only minimize hands to the method: [ok, objective,
\* T, tableau, basic_variables, na, nv]; ok is FALSE where the call returns
\* before a tableau is built.
method_entry(f_in, C_in, d_in, small) ==
  LET none ==
        [ok |-> FALSE, objective |-> << >>, T |-> MZero(0, 0),
         tableau |-> MZero(0, 0), basic_variables |-> << >>, na |-> 0, nv |-> 0]
      built(fs, T, m, ct) ==
        [ok |-> TRUE, objective |-> fs, T |-> T, tableau |-> ct.tableau,
         basic_variables |-> ct.basic_variables,
         na |-> ct.tableau.nc - T.nc - m - 1, nv |-> T.nc]
      transformed(f, C, d, tm) ==
        IF ~tm.ok THEN none
        ELSE built(MVec(MTranspose(tm.T), f), tm.T, C.nr,
                   create_tableau(MMul(C, tm.T), d))
      reduced(f, C, d) ==
        transformed(f, C, d, transformation_matrix(C, d, small))
      kept(f, keep) ==
        reduced(f,
                Mat(Len(keep), C_in.nc, [i \in 1..Len(keep) |-> C_in.e[keep[i]]]),
                Eager([i \in 1..Len(keep) |-> d_in[keep[i]]]))
  IN  IF no_constraints(C_in) \/ infeasible_degenerate(C_in, d_in, small)
      THEN none
      ELSE kept(IF Len(f_in) = 0 THEN VZero(C_in.nc) ELSE f_in,
                kept_rows(C_in, 1, small))

(***************************************************************************)
(* kernel_projection.hxx.  svd.matrixV().rightCols(n - rank) is an         *)
(* orthonormal basis of ker(A).  For the matrices of this model (at most   *)
(* two columns) it is: nothing (rank = cols); the identity (A = 0); or the *)
(* unit vector orthogonal to the rows of A, whose sign the decomposition   *)
(* fixes and the code does not: `sgn` is that sign.  The rows used here    *)
(* have rational length, so the unit vector is rational.                   *)
(***************************************************************************)
ISqrt(k) == CHOOSE s \in 0..k : s * s = k
RSqrt(a) == <<ISqrt(a[1]), ISqrt(a[2])>>

\* A faulty variant of the basis: the unit vector along the rows of A is
\* taken, not the one orthogonal to them.
KernelBasis_along_rows(A, sgn) ==
  LET unit(k, len) ==
        Mat(2, 1, [i \in 1..2 |-> <<RMul(R(sgn), RDiv(k[i], len))>>])
      along(row) == unit(row, RSqrt(Dot(row, row)))
      basis(rk) ==
        IF rk = A.nc THEN Mat(A.nc, 0, [i \in 1..A.nc |-> << >>])
        ELSE IF rk = 0 THEN MIdentity(A.nc)
        ELSE along(A.e[CHOOSE i \in 1..A.nr :
                           /\ ~IsZeroExact(A.e[i])
                           /\ \A j \in 1..(i - 1) : IsZeroExact(A.e[j])])
  IN  basis(Rank(A))

KernelBasis(A, sgn) ==
  LET unit(k, len) ==
        Mat(2, 1, [i \in 1..2 |-> <<RMul(R(sgn), RDiv(k[i], len))>>])
      orthogonal(row) ==
        unit(<<RNeg(row[2]), row[1]>>, RSqrt(Dot(row, row)))
      basis(rk) ==
        IF rk = A.nc THEN Mat(A.nc, 0, [i \in 1..A.nc |-> << >>])
        ELSE IF rk = 0 THEN MIdentity(A.nc)
        ELSE orthogonal(A.e[CHOOSE i \in 1..A.nr :
                                /\ ~IsZeroExact(A.e[i])
                                /\ \A j \in 1..(i - 1) : IsZeroExact(A.e[j])])
  IN  basis(Rank(A))

\* [Z, xeq]
svd_projection(A, b, sgn) ==
  [xeq |-> SvdSolve(A, b), Z |-> KernelBasis(A, sgn)]

\* ColPivHouseholderQR<MatrixXs>(A).solve(b), for the matrices of this model
\* (two columns): the least-squares solution in which the columns the
\* pivoting leaves out are zero.  The pivoting takes the column of largest
\* norm first, the first of them if they are equal.
QrSolve(A, b) ==
  LET col(j) == Eager([i \in 1..A.nr |-> A.e[i][j]])
      \* x is zero but on the pivot column p.
      basic(p) ==
        Eager([j \in 1..A.nc |->
                 IF j = p THEN RDiv(Dot(col(p), b), Dot(col(p), col(p)))
                 ELSE Zero])
      of_rank(rk) ==
        IF rk = 0 THEN VZero(A.nc)
        ELSE IF rk = A.nc THEN SvdSolve(A, b)
        ELSE basic(IF RLt(Dot(col(1), col(1)), Dot(col(2), col(2)))
                   THEN 2 ELSE 1)
  IN  of_rank(Rank(A))

\* [Z, xeq]: householderQ of the decomposition of A^T has, as its last
\* n - rank columns, an orthonormal basis of ker(A).
qr_projection(A, b, sgn) ==
  [xeq |-> QrSolve(A, b), Z |-> KernelBasis(A, sgn)]

\* A faulty variant of the full form: x is given the particular solution as
\* soon as it is known, before the call is known to succeed.
minimize_full_writing_early(f, A, b, C, d, x, small, large, sgn) ==
  LET original(pr, r) ==
        IF ~r.ok
        THEN [ok |-> FALSE, x |-> pr.xeq,
              halt_reason |->
                "Failed to solve the inequality constrained sub-problem: "
                  \o r.halt_reason,
              tableau |-> r.tableau]
        ELSE [ok |-> TRUE, x |-> VAdd(pr.xeq, MVec(pr.Z, r.x)),
              halt_reason |-> r.halt_reason, tableau |-> r.tableau]
      projected(pr) ==
        IF ~IsZeroVec(VSub(MVec(A, pr.xeq), b), small)
        THEN [ok |-> FALSE, x |-> pr.xeq,
              halt_reason |-> "Equality constraints are infeasible.",
              tableau |-> MZero(0, 0)]
        ELSE IF pr.Z.nc = 0
        THEN [ok |-> TRUE, x |-> pr.xeq,
              halt_reason |->
                "The solution is fully determined by equality constraints",
              tableau |-> MZero(0, 0)]
        ELSE original(pr,
               minimize_ineq(MVec(MTranspose(pr.Z), f), MMul(C, pr.Z),
                             VSub(d, MVec(C, pr.xeq)), << >>, small, large))
  IN  projected(svd_projection(A, b, sgn))

\* minimize(f, A, b, C, d, x, halt_reason, small_number, large_number)
minimize_full(f, A, b, C, d, x, small, large, sgn) ==
  LET \* "Solve the original problem"
      original(pr, r) ==
        IF ~r.ok
        THEN [ok |-> FALSE, x |-> x,
              halt_reason |->
                "Failed to solve the inequality constrained sub-problem: "
                  \o r.halt_reason,
              tableau |-> r.tableau]
        ELSE [ok |-> TRUE, x |-> VAdd(pr.xeq, MVec(pr.Z, r.x)),
              halt_reason |-> r.halt_reason, tableau |-> r.tableau]
      projected(pr) ==
        IF ~IsZeroVec(VSub(MVec(A, pr.xeq), b), small)
        THEN [ok |-> FALSE, x |-> x,
              halt_reason |-> "Equality constraints are infeasible.",
              tableau |-> MZero(0, 0)]
        ELSE IF pr.Z.nc = 0
        THEN [ok |-> TRUE, x |-> pr.xeq,
              halt_reason |->
                "The solution is fully determined by equality constraints",
              tableau |-> MZero(0, 0)]
        ELSE original(pr,
               minimize_ineq(MVec(MTranspose(pr.Z), f), MMul(C, pr.Z),
                             VSub(d, MVec(C, pr.xeq)), << >>, small, large))
  IN  projected(svd_projection(A, b, sgn))

(***************************************************************************)
(* Reference semantics of a linear program, used to state the claims:      *)
(* exact Fourier-Motzkin elimination over the rationals.  A system is a    *)
(* set of constraints <<c, r>>, each meaning c . x <= r.                   *)
(***************************************************************************)
FMEliminate(sys, k) ==
  LET pos == {q \in sys : RLt(Zero, q[1][k])}
      neg == {q \in sys : RLt(q[1][k], Zero)}
      rest == {q \in sys : q[1][k][1] = 0}
      scaled(q) == LET s == RDiv(One, RAbs(q[1][k]))
                   IN  <<VScale(s, q[1]), RMul(s, q[2])>>
      comb(p, q) == LET a == scaled(p)
                        b == scaled(q)
                    IN  <<VAdd(a[1], b[1]), RAdd(a[2], b[2])>>
  IN  rest \cup {comb(p, q) : p \in pos, q \in neg}

RECURSIVE FMProject(_, _)
\* Eliminate the variables 1..k.
FMProject(sys, k) == IF k = 0 THEN sys ELSE FMProject(FMEliminate(sys, k), k - 1)

\* The system {A x = b, C x <= d} over n variables, with `extra` more
\* coefficients (zero) appended to every row.
LPSystem(A, b, C, d, extra) ==
  LET pad(v) == v \o VZero(extra)
  IN  {<<pad(C.e[i]), d[i]>> : i \in 1..C.nr}
      \cup {<<pad(A.e[i]), b[i]>> : i \in 1..A.nr}
      \cup {<<pad(VNeg(A.e[i])), RNeg(b[i])>> : i \in 1..A.nr}

\* {x : A x = b, C x <= d} is non-empty.
LPFeasible(A, b, C, d, n) ==
  \A q \in FMProject(LPSystem(A, b, C, d, 0), n) : RLe(Zero, q[2])

\* The constraints on t left of {A x = b, C x <= d, f . x <= t}.
LPValueBounds(f, A, b, C, d, n) ==
  FMProject(LPSystem(A, b, C, d, 1) \cup {<<f \o <<R(-1)>>, Zero>>}, n)

\* f . x is bounded below on the (non-empty) feasible set.
LPBounded(f, A, b, C, d, n) ==
  \E q \in LPValueBounds(f, A, b, C, d, n) : RLt(q[1][n + 1], Zero)

\* An optimal solution exists.
LPHasOptimum(f, A, b, C, d, n) ==
  LPFeasible(A, b, C, d, n) /\ LPBounded(f, A, b, C, d, n)

\* The optimal value (when an optimal solution exists).
LPOptimum(f, A, b, C, d, n) ==
  LET lows == {RDiv(q[2], q[1][n + 1]) :
                 q \in {p \in LPValueBounds(f, A, b, C, d, n) : RLt(p[1][n + 1], Zero)}}
  IN  CHOOSE v \in lows : \A w \in lows : RLe(w, v)

\* x satisfies C x <= d + slack in every row, and A x = b within slack.
SatisfiesIneq(C, d, x, slack) ==
  \A i \in 1..C.nr : RLe(Dot(C.e[i], x), RAdd(d[i], slack))
SatisfiesEq(A, b, x, slack) ==
  \A i \in 1..A.nr : RLe(RAbs(RSub(Dot(A.e[i], x), b[i])), slack)

(***************************************************************************)
(* quadratic_programming.hxx: Solver.  A solver is a record of the class's *)
(* fields; every member function is an operator from the solver (and its   *)
(* arguments) to the solver it leaves, with its return value where it has  *)
(* one.  active and inactive hold the code's row numbers, counted from 0.  *)
(***************************************************************************)
\* The tolerance given to the constructor (tests: 1e-9).
tol == <<1, 100>>

\* A faulty variant of updateObjective: the unconstrained minimiser yu is
\* not computed again.
updateObjective_keeping_yu(s, Q, r) ==
  LET unconstrained(Qy, ry) ==
        [s EXCEPT !.Q = Q, !.r = r, !.Qy = Qy, !.ry = ry]
  IN  unconstrained(
        IF s.me > 0
        THEN IF s.ny > 0 THEN MMul(Q, s.Z) ELSE MZero(s.nr, 0)
        ELSE Q,
        IF s.me > 0
        THEN IF s.ny > 0 THEN VSub(r, MVec(Q, s.xeq)) ELSE VZero(s.nr)
        ELSE r)

\* yu = Qy.jacobiSvd().solve(ry), and the like.
updateObjective(s, Q, r) ==
  LET unconstrained(Qy, ry) ==
        [s EXCEPT !.Q = Q, !.r = r, !.Qy = Qy, !.ry = ry,
                  !.yu = IF s.ny > 0 THEN SvdSolve(Qy, ry) ELSE << >>]
  IN  unconstrained(
        IF s.me > 0
        THEN IF s.ny > 0 THEN MMul(Q, s.Z) ELSE MZero(s.nr, 0)
        ELSE Q,
        IF s.me > 0
        THEN IF s.ny > 0 THEN VSub(r, MVec(Q, s.xeq)) ELSE VZero(s.nr)
        ELSE r)

resetActiveSet(s) ==
  [s EXCEPT !.Ca = MZero(0, s.ny), !.da = << >>, !.active = << >>,
            !.inactive = Eager([i \in 1..s.mi |-> i - 1])]

\* A faulty variant of clearConstraints(): the reduced objective is not
\* recomputed.
clearConstraints_without_refresh(s) ==
  resetActiveSet([s EXCEPT !.Z = MIdentity(s.nx), !.xeq = VZero(s.nx),
                           !.Cy = MZero(0, s.ny), !.dy = << >>,
                           !.mi = 0, !.me = 0, !.ny = s.nx])

clearConstraints(s) ==
  updateObjective(
    resetActiveSet([s EXCEPT !.Z = MIdentity(s.nx), !.xeq = VZero(s.nx),
                             !.Cy = MZero(0, s.ny), !.dy = << >>,
                             !.mi = 0, !.me = 0, !.ny = s.nx]),
    s.Q, s.r)

\* A faulty variant of the violation: the difference is taken the other way.
violation_with_sign_flipped(Cy, dy, y) == MaxCoeff(VSub(dy, MVec(Cy, y)))

\* (Cy*y - dy).maxCoeff()
violation(Cy, dy, y) == MaxCoeff(VSub(MVec(Cy, y), dy))

\* dy.array() - tol
with_margin(dy) == Eager([i \in 1..Len(dy) |-> RSub(dy[i], tol)])

\* A faulty variant of the test: every update is taken as a change of
\* dimensions.
rows_changed_always(s, C) == TRUE

\* if(C.rows() != mi): the number of inequalities is not the stored one.
rows_changed(s, C) == C.nr # s.mi

\* [ok, s]
updateInequalities(s, C, d) ==
  LET \* The return: the constraints are stored, or all of them are cleared.
      verdict(t) ==
        IF t.ok
        THEN [ok |-> TRUE, s |-> resetActiveSet([t.s EXCEPT !.mi = C.nr])]
        ELSE [ok |-> FALSE, s |-> clearConstraints(t.s)]
      \* After the search of a feasible point, which is left in yk.
      searched(s1, res) ==
        [ok |-> res.ok /\ ~RLt(Zero, violation(s1.Cy, s1.dy, res.x)),
         s |-> [s1 EXCEPT !.yk = res.x]]
      \* The feasibility test.
      tested(s1) ==
        IF C.nr > 0
        THEN IF s.ny > 0
             THEN searched(s1, minimize_ineq(VZero(s.ny), s1.Cy, with_margin(s1.dy),
                                             s1.yk, tol, no_penalty))
             ELSE [ok |-> ~RLt(Zero, violation(C, d, s.xeq)), s |-> s1]
        ELSE [ok |-> TRUE, s |-> s1]
      projected(s1) ==
        IF rows_changed(s, C) THEN verdict(tested(s1))
        ELSE [ok |-> TRUE, s |-> s1]
  IN  projected(
        [s EXCEPT
           !.Cy = IF s.me > 0
                  THEN IF C.nr > 0
                       THEN IF s.ny > 0 THEN MMul(C, s.Z) ELSE MZero(C.nr, 0)
                       ELSE MZero(0, s.ny)
                  ELSE C,
           !.dy = IF s.me > 0
                  THEN IF C.nr > 0
                       THEN IF s.ny > 0 THEN VSub(d, MVec(C, s.xeq))
                            ELSE VZero(C.nr)
                       ELSE << >>
                  ELSE d])

\* [ok, s]; sgn stands for the orientation of the kernel basis the
\* decomposition returns.
setConstraints(s, A, b, C, d, sgn) ==
  LET \* "Process the inequality constraints as well"
      inequalities(e) ==
        IF ~e.ok THEN e ELSE updateInequalities([e.s EXCEPT !.mi = 0], C, d)
      projected(pr) ==
        IF ~IsZeroVec(VSub(MVec(A, pr.xeq), b), tol)
        THEN [ok |-> FALSE,
              s |-> clearConstraints([s EXCEPT !.Z = pr.Z, !.xeq = pr.xeq])]
        ELSE [ok |-> TRUE,
              s |-> updateObjective(
                      [s EXCEPT !.Z = pr.Z, !.xeq = pr.xeq,
                                !.me = A.nr, !.ny = pr.Z.nc], s.Q, s.r)]
      equalities ==
        IF A.nr = 0
        THEN [ok |-> TRUE,
              s |-> IF s.me > 0
                    THEN updateObjective(
                           [s EXCEPT !.Z = MIdentity(s.nx), !.xeq = VZero(s.nx),
                                     !.me = 0, !.ny = s.nx], s.Q, s.r)
                    ELSE s]
        ELSE projected(svd_projection(A, b, sgn))
  IN  inequalities(equalities)

\* setConstraints(C, d)
setInequalityConstraints(s, C, d) ==
  setConstraints(s, MZero(0, s.nx), << >>, C, d, 1)

\* [ok, s]: the feasible start left in s.yk; y is the caller's vector.
guess(s, y) ==
  LET \* "Try to find a feasible point using the Simplex"
      searched(s1, res) ==
        [ok |-> res.ok /\ ~RLt(Zero, violation(s.Cy, s.dy, res.x)),
         s |-> [s1 EXCEPT !.yk = res.x]]
      \* After the projection onto the active constraints, if there are any.
      projected(s1) ==
        IF s.Ca.nr > 0 /\ RLe(violation(s.Cy, s.dy, s1.yk), Zero)
        THEN [ok |-> TRUE, s |-> s1]
        ELSE searched(s1, minimize_ineq(VZero(s.ny), s.Cy, with_margin(s.dy),
                                        s1.yk, tol, no_penalty))
  IN  IF RLt(violation(s.Cy, s.dy, s.yk), tol)
      THEN [ok |-> TRUE, s |-> s]
      ELSE IF Len(y) = s.ny /\ RLe(violation(s.Cy, s.dy, y), Zero)
      THEN [ok |-> TRUE, s |-> [s EXCEPT !.yk = y]]
      ELSE projected(IF s.Ca.nr > 0
                     THEN [s EXCEPT !.yk = SvdSolve(s.Ca, s.da)] ELSE s)

\* p = W * (Qy*W)^+ * (ry - Qy*yk) for an orthonormal basis W of the kernel of
\* Ca: with N = W*W^T = I - Ca^+ * Ca, the same vector is N * (Qy*N)^+ * (...),
\* whatever basis the decomposition returns.
kernel_step(s) ==
  LET step(N) ==
        MVec(N, SvdSolve(MMul(s.Qy, N), VSub(s.ry, MVec(s.Qy, s.yk))))
  IN  step(MSub(MIdentity(s.ny), MMul(PInv(s.Ca), s.Ca)))

step_direction(s) ==
  IF Len(s.active) > 0
  THEN IF s.Ca.nc = Rank(s.Ca) THEN VZero(s.ny) ELSE kernel_step(s)
  ELSE VSub(s.yu, s.yk)

\* The largest step each inactive constraint allows along p (only where
\* p.dot(ci) > 0).
step_limit(s, p, i) ==
  RDiv(RSub(s.dy[s.inactive[i] + 1], Dot(s.yk, s.Cy.e[s.inactive[i] + 1])),
       Dot(p, s.Cy.e[s.inactive[i] + 1]))

\* idxact: the first position of inactive with the smallest limit below 1;
\* 0 (the code's -1) if no constraint blocks the full step.
blocking_position(s, p) ==
  LET first_smallest(cand, limit) ==
        IF cand = {} THEN 0
        ELSE CHOOSE i \in cand :
               \A j \in cand : /\ RLe(limit[i], limit[j])
                               /\ j < i => RLt(limit[i], limit[j])
      blocking(limit) ==
        first_smallest({i \in 1..Len(s.inactive) : RLt(limit[i], One)}, limit)
  IN  blocking(Eager([i \in 1..Len(s.inactive) |->
                        IF RLt(Zero, Dot(p, s.Cy.e[s.inactive[i] + 1]))
                        THEN step_limit(s, p, i) ELSE One]))

SeqRemove(q, i) == SubSeq(q, 1, i - 1) \o SubSeq(q, i + 1, Len(q))

\* "Activating constraint inactive[idxact]"
activate(s, p, idxact) ==
  LET idx == s.inactive[idxact]
  IN  [s EXCEPT !.yk = VAdd(s.yk, VScale(step_limit(s, p, idxact), p)),
                !.Ca = MAppendRow(s.Ca, s.Cy.e[idx + 1]),
                !.da = Append(s.da, s.dy[idx + 1]),
                !.active = Append(s.active, idx),
                !.inactive = SeqRemove(s.inactive, idxact)]

\* half_mu = CaT_svd.solve(Qy^T * (ry - Qy*yk))
half_multipliers(s) ==
  SvdSolve(MTranspose(s.Ca),
           MVec(MTranspose(s.Qy), VSub(s.ry, MVec(s.Qy, s.yk))))

\* The position (from 1) of the most negative multiplier among all active
\* constraints but the last; 0 (the code's -1) if there is none.
deactivation_position(s) ==
  LET first_smallest(cand, half_mu) ==
        IF cand = {} THEN 0
        ELSE CHOOSE i \in cand :
               \A j \in cand : /\ RLe(half_mu[i], half_mu[j])
                               /\ j < i => RLt(half_mu[i], half_mu[j])
      negative(half_mu) ==
        first_smallest({i \in 1..(Len(s.active) - 1) : RLt(half_mu[i], Zero)},
                       half_mu)
  IN  negative(half_multipliers(s))

\* A faulty variant: the last row of Ca and da is dropped without the later
\* rows being shifted up.
deactivate_without_shift(s, idx) ==
  [s EXCEPT !.Ca = Mat(s.Ca.nr - 1, s.Ca.nc, SubSeq(s.Ca.e, 1, s.Ca.nr - 1)),
            !.da = SubSeq(s.da, 1, Len(s.da) - 1),
            !.inactive = Append(s.inactive, s.active[idx]),
            !.active = SeqRemove(s.active, idx)]

\* "Deactivating active[idx]"
deactivate(s, idx) ==
  [s EXCEPT !.Ca = Mat(s.Ca.nr - 1, s.Ca.nc, SeqRemove(s.Ca.e, idx)),
            !.da = SeqRemove(s.da, idx),
            !.inactive = Append(s.inactive, s.active[idx]),
            !.active = SeqRemove(s.active, idx)]

\* The number of iterations of the active-set loop explored; the code gives
\* up, with an exception, after 1e6.
MaxIters == 12

\* One pass through the body of the while(true) loop of solveY, after the
\* iteration count has been tested: [done, s].
solveY_iteration(s) ==
  LET \* "Check the multipliers"
      multipliers(s1, idx) ==
        IF idx # 0 THEN [done |-> FALSE, s |-> deactivate(s1, idx)]
        ELSE [done |-> TRUE, s |-> s1]
      \* "Full step performed"
      full_step(s1) ==
        IF Len(s.active) = 0 THEN [done |-> TRUE, s |-> s1]
        ELSE multipliers(s1, deactivation_position(s1))
      blocked(p, idxact) ==
        IF idxact # 0
        THEN [done |-> FALSE, s |-> activate(s, p, idxact)]
        ELSE full_step([s EXCEPT !.yk = VAdd(s.yk, p)])
      step(p) == blocked(p, blocking_position(s, p))
  IN  step(step_direction(s))

\* A faulty variant of the test: the loop never gives up.
too_many_iterations_never(its, cap) == FALSE

\* if(iters++ > 1e6) throw ...: the test made at the top of every pass.
too_many_iterations(its, cap) == its > cap

\* The while(true) loop of solveY: [ok, thrown, s, y].
RECURSIVE solveY_loop(_, _, _)
solveY_loop(s, y, its) ==
  IF too_many_iterations(its, MaxIters)
  THEN [ok |-> FALSE, thrown |-> TRUE, s |-> s, y |-> y]
  ELSE
    LET next(it) ==
          IF it.done
          THEN [ok |-> TRUE, thrown |-> FALSE, s |-> it.s, y |-> it.s.yk]
          ELSE solveY_loop(it.s, y, its + 1)
    IN  next(solveY_iteration(s))

\* The start of solveY when there are inequalities: yk is zeroed, then guess
\* looks for a feasible point: [ok, s].
solveY_start(s, y) == guess([s EXCEPT !.yk = VZero(s.ny)], y)

\* [ok, thrown, s, y]
solveY(s, y) ==
  IF s.mi = 0
  THEN [ok |-> TRUE, thrown |-> FALSE, s |-> s, y |-> s.yu]
  ELSE
    LET start(g) ==
          IF ~g.ok THEN [ok |-> FALSE, thrown |-> FALSE, s |-> g.s, y |-> y]
          ELSE solveY_loop(g.s, y, 0)
    IN  start(solveY_start(s, y))

\* [ok, thrown, s, x]
solve(s, x) ==
  IF s.ny = 0
  THEN [ok |-> TRUE, thrown |-> FALSE, s |-> s, x |-> s.xeq]
  ELSE
    LET back(res) ==
          IF ~res.ok
          THEN [ok |-> FALSE, thrown |-> res.thrown, s |-> res.s, x |-> x]
          ELSE [ok |-> TRUE, thrown |-> FALSE, s |-> res.s,
                x |-> IF s.me > 0 THEN VAdd(MVec(s.Z, res.y), s.xeq) ELSE res.y]
    IN  back(solveY(s, x))

\* Solver(Q, r, tolerance)
Solver(Q, r) ==
  LET nx == Q.nc
      nr == Q.nr
      s0 == [nx |-> nx, ny |-> nx, nr |-> nr, mi |-> 0, me |-> 0,
             Q |-> MZero(nr, nx), r |-> VZero(nr),
             Qy |-> MZero(nr, nx), ry |-> VZero(nr),
             Cy |-> MZero(0, nx), dy |-> << >>,
             Z |-> MIdentity(nx),
             yk |-> VZero(nx), yu |-> VZero(nx), xeq |-> VZero(nx),
             Ca |-> MZero(0, nx), da |-> << >>,
             active |-> << >>, inactive |-> << >>]
  IN  updateObjective(resetActiveSet(s0), Q, r)

(***************************************************************************)
(* The state machine.  A caller either poses linear programs or drives one *)
(* Solver; the variables of the other part stay idle.                      *)
(*                                                                         *)
(* Linear programs: a caller holds a problem (f, A, b, C, d), the method   *)
(* (large_number) and an output vector x, and calls minimize once: the     *)
(* inequality-only overload when A has no rows, the full form otherwise    *)
(* (as the test fixture dispatches).                                       *)
(*                                                                         *)
(* Quadratic programs: a caller constructs one Solver and calls its member *)
(* functions in any order, passing the same vector x to every solve.       *)
(* args is the constraint set the last call passed (none if it passed      *)
(* none), given the one the solver was last handed and accepted (none      *)
(* after a rejection or clearConstraints); had_active tells whether the    *)
(* active set was non-empty when the last call began, calls counts the     *)
(* calls made.                                                             *)
(***************************************************************************)
VARIABLES lp, lp_sgn, lp_called, lp_x, lp_ok, lp_halt, lp_tableau, lp_proj

lp_vars ==
  <<lp, lp_sgn, lp_called, lp_x, lp_ok, lp_halt, lp_tableau, lp_proj>>

VARIABLES qp, qp_x, qp_op, qp_ret, qp_args, qp_given, qp_had_active, qp_calls

qp_vars ==
  <<qp, qp_x, qp_op, qp_ret, qp_args, qp_given, qp_had_active, qp_calls>>

\* A solve followed pass by pass: where the call is ("idle" before the first
\* call, "loop" inside the while(true) loop of solveY, then "returned",
\* "failed" for a false return, "thrown" for the exception) and the local
\* counter iters of the passes begun.
VARIABLES solve_pc, iters

solve_vars == <<solve_pc, iters>>

\* A method of the Simplex followed pivot by pivot: pc is where the method is
\* ("idle" if none is followed, "simplex" before a test of the inner loop,
\* "swap" in the replacement of basic artificial variables, "done",
\* "failed"), stage the run of the inner loop, row the row the replacement
\* loop is at, pivots the pivots made and pivoted the kind of the last step
\* if it was a pivot.
VARIABLE sx

simplex_vars == <<sx>>

vars == <<lp_vars, qp_vars, solve_vars, simplex_vars>>

\* The two ways of finding a first basic solution, and the large_number that
\* selects each (a value <= 0 selects the two-phase method).
Methods == {"two-phase", "penalty"}
large_of(method) == IF method = "penalty" THEN large_number ELSE no_penalty

IVec(v) == Eager([i \in 1..Len(v) |-> R(v[i])])
IMat(rows, nc) == Mat(Len(rows), nc, [i \in 1..Len(rows) |-> IVec(rows[i])])

NoConstraints(nx) ==
  [A |-> MZero(0, nx), b |-> << >>, C |-> MZero(0, nx), d |-> << >>]

\* The outputs of a direct call of the kernel projection, none made yet.
NoProjection == [backend |-> "", Z |-> MZero(0, 0), xeq |-> << >>]

\* No method of the Simplex is followed pivot by pivot.
IdleSimplex == sx = [pc |-> "idle"]

\* No linear program is posed.
IdleLP ==
  /\ lp = [f |-> << >>, A |-> MZero(0, 0), b |-> << >>,
           C |-> MZero(0, 0), d |-> << >>]
  /\ lp_sgn = 1
  /\ lp_called = Methods
  /\ lp_x = [m \in Methods |-> << >>]
  /\ lp_ok = [m \in Methods |-> FALSE]
  /\ lp_halt = [m \in Methods |-> ""]
  /\ lp_tableau = [m \in Methods |-> MZero(0, 0)]
  /\ lp_proj = NoProjection
  /\ IdleSimplex

\* No solve is followed pass by pass.
IdleSolve ==
  /\ solve_pc = "idle"
  /\ iters = 0

\* No solver is in use.
IdleQP ==
  /\ qp = [nx |-> 0]
  /\ qp_x = << >>
  /\ qp_op = ""
  /\ qp_ret = FALSE
  /\ qp_args = NoConstraints(0)
  /\ qp_given = NoConstraints(0)
  /\ qp_had_active = FALSE
  /\ qp_calls = 0
  /\ IdleSolve

\* The largest number of inequality rows of a problem.
MaxIneq == 2

ObjectiveSet == {<<0, 0>>, <<-1, 0>>, <<1, 1>>, <<-1, 1>>}
RowSet == {<<1, 0>>, <<-1, 0>>, <<0, 1>>, <<0, -1>>, <<-1, -1>>, <<0, 0>>}
RhsSet == {-1, 0, 1}
\* Equality blocks <<A, b>>: none; rank 1; rank 1, oblique; rank 2;
\* inconsistent; rank 1 with a redundant row.
EqSet == { << << >>, << >> >>,
           << << <<1, 0>> >>, <<1>> >>,
           << << <<3, 4>> >>, <<5>> >>,
           << << <<1, 0>>, <<0, 1>> >>, <<1, -1>> >>,
           << << <<1, 0>>, <<1, 0>> >>, <<1, 0>> >>,
           << << <<0, 1>>, <<0, 2>> >>, <<1, 2>> >> }

\* The value the caller's x holds before each call.
x_before == IVec(<<7, 7>>)

InitLP ==
  /\ \E f \in ObjectiveSet, eq \in EqSet, m \in 0..MaxIneq :
       \E rows \in [1..m -> RowSet], rhs \in [1..m -> RhsSet] :
         lp = [f |-> IVec(f), A |-> IMat(eq[1], 2), b |-> IVec(eq[2]),
               C |-> IMat(rows, 2), d |-> IVec(rhs)]
  /\ lp_sgn \in IF lp.A.nr > 0 /\ Rank(lp.A) = 1 THEN {1, -1} ELSE {1}
  /\ lp_called = {}
  /\ lp_x = [m \in Methods |-> x_before]
  /\ lp_ok = [m \in Methods |-> FALSE]
  /\ lp_halt = [m \in Methods |-> ""]
  /\ lp_tableau = [m \in Methods |-> MZero(0, 0)]
  /\ lp_proj = NoProjection
  /\ IdleSimplex
  /\ IdleQP

\* The caller runs the inequality-only overload with one of the methods.
MinimizeIneq ==
  /\ lp.A.nr = 0
  /\ lp_proj = NoProjection
  /\ \E method \in Methods \ lp_called :
       \E r \in {minimize_ineq(lp.f, lp.C, lp.d, x_before, small_number,
                               large_of(method))} :
         /\ lp_x' = [lp_x EXCEPT ![method] = r.x]
         /\ lp_ok' = [lp_ok EXCEPT ![method] = r.ok]
         /\ lp_halt' = [lp_halt EXCEPT ![method] = r.halt_reason]
         /\ lp_tableau' = [lp_tableau EXCEPT ![method] = r.tableau]
         /\ lp_called' = lp_called \cup {method}
  /\ UNCHANGED <<lp, lp_sgn, lp_proj, qp_vars, solve_vars, simplex_vars>>

\* The caller runs the full form with one of the methods.
MinimizeFull ==
  /\ lp.A.nr > 0
  /\ lp_proj = NoProjection
  /\ \E method \in Methods \ lp_called :
       \E r \in {minimize_full(lp.f, lp.A, lp.b, lp.C, lp.d, x_before,
                               small_number, large_of(method), lp_sgn)} :
         /\ lp_x' = [lp_x EXCEPT ![method] = r.x]
         /\ lp_ok' = [lp_ok EXCEPT ![method] = r.ok]
         /\ lp_halt' = [lp_halt EXCEPT ![method] = r.halt_reason]
         /\ lp_tableau' = [lp_tableau EXCEPT ![method] = r.tableau]
         /\ lp_called' = lp_called \cup {method}
  /\ UNCHANGED <<lp, lp_sgn, lp_proj, qp_vars, solve_vars, simplex_vars>>

\* The caller, instead of minimizing, runs the kernel projection itself on
\* the equalities, with the decomposition of its choice.
KernelProjection ==
  /\ lp.A.nr > 0
  /\ lp_called = {}
  /\ lp_proj = NoProjection
  /\ \E backend \in {"svd", "qr"} :
       \E pr \in {IF backend = "svd"
                   THEN svd_projection(lp.A, lp.b, lp_sgn)
                   ELSE qr_projection(lp.A, lp.b, lp_sgn)} :
         lp_proj' = [backend |-> backend, Z |-> pr.Z, xeq |-> pr.xeq]
  /\ UNCHANGED <<lp, lp_sgn, lp_called, lp_x, lp_ok, lp_halt, lp_tableau,
                 qp_vars, solve_vars, simplex_vars>>

NextLP ==
  \/ MinimizeIneq
  \/ MinimizeFull
  \/ KernelProjection

SpecLP == InitLP /\ [][NextLP]_vars

(***************************************************************************)
(* The calls on the solver.                                                *)
(***************************************************************************)
\* The number of member-function calls made on the solver in one run.
MaxCalls == 4

\* Objectives <<Q, r>>: the one the solver is constructed with, and the ones
\* updateObjective is given.
QPFirstObjective == << << <<1, 0>>, <<0, 1>> >>, <<2, 1>> >>
QPObjectiveSet == {QPFirstObjective, << << <<1, 1>>, <<0, 1>> >>, <<0, -1>> >>}
\* Equality blocks <<A, b>> of the four-argument setConstraints: rank 1,
\* rank 2 and inconsistent.
QPEqSet == { << << <<1, 0>> >>, <<1>> >>,
             << << <<1, 0>>, <<0, 1>> >>, <<1, -1>> >>,
             << << <<1, 0>>, <<1, 0>> >>, <<1, 0>> >> }
\* Inequality blocks <<C, d>>: none; one row (a bound on x1, a bound on x2,
\* a half-plane without the origin); two rows (a corner, a set without
\* interior, an empty set).
QPIneqSet == { << << >>, << >> >>,
               << << <<1, 0>> >>, <<1>> >>,
               << << <<0, 1>> >>, <<0>> >>,
               << << <<-1, 0>> >>, <<-1>> >>,
               << << <<1, 0>>, <<1, 1>> >>, <<1, 1>> >>,
               << << <<1, 0>>, <<-1, 0>> >>, <<-1, 1>> >>,
               << << <<1, 0>>, <<-1, 0>> >>, <<-1, -1>> >> }

InitQP ==
  /\ qp = Solver(IMat(QPFirstObjective[1], Len(QPFirstObjective[2])),
                 IVec(QPFirstObjective[2]))
  /\ qp_x = << >>
  /\ qp_op = "Solver"
  /\ qp_ret = TRUE
  /\ qp_args = NoConstraints(qp.nx)
  /\ qp_given = NoConstraints(qp.nx)
  /\ qp_had_active = FALSE
  /\ qp_calls = 0
  /\ IdleLP
  /\ IdleSolve

UpdateObjective ==
  /\ qp_calls < MaxCalls
  /\ \E obj \in QPObjectiveSet :
       qp' = updateObjective(qp, IMat(obj[1], qp.nx), IVec(obj[2]))
  /\ qp_op' = "updateObjective"
  /\ qp_ret' = TRUE
  /\ qp_had_active' = (Len(qp.active) > 0)
  /\ qp_calls' = qp_calls + 1
  /\ qp_args' = NoConstraints(qp.nx)
  /\ UNCHANGED <<qp_x, qp_given, lp_vars, solve_vars, simplex_vars>>

SetConstraints ==
  /\ qp_calls < MaxCalls
  /\ \E eq \in QPEqSet, blk \in QPIneqSet, sgn \in {1, -1} :
       \E args \in {[A |-> IMat(eq[1], qp.nx), b |-> IVec(eq[2]),
                      C |-> IMat(blk[1], qp.nx), d |-> IVec(blk[2])]} :
         /\ Rank(args.A) = 1 \/ sgn = 1
         /\ \E res \in {setConstraints(qp, args.A, args.b, args.C, args.d, sgn)} :
              /\ qp' = res.s
              /\ qp_ret' = res.ok
              /\ qp_args' = args
              /\ qp_given' = IF res.ok THEN args ELSE NoConstraints(qp.nx)
  /\ qp_op' = "setConstraints"
  /\ qp_had_active' = (Len(qp.active) > 0)
  /\ qp_calls' = qp_calls + 1
  /\ UNCHANGED <<qp_x, lp_vars, solve_vars, simplex_vars>>

SetInequalityConstraints ==
  /\ qp_calls < MaxCalls
  /\ \E blk \in QPIneqSet :
       \E args \in {[NoConstraints(qp.nx) EXCEPT !.C = IMat(blk[1], qp.nx),
                                                 !.d = IVec(blk[2])]} :
         \E res \in {setInequalityConstraints(qp, args.C, args.d)} :
           /\ qp' = res.s
           /\ qp_ret' = res.ok
           /\ qp_args' = args
           /\ qp_given' = IF res.ok THEN args ELSE NoConstraints(qp.nx)
  /\ qp_op' = "setConstraints"
  /\ qp_had_active' = (Len(qp.active) > 0)
  /\ qp_calls' = qp_calls + 1
  /\ UNCHANGED <<qp_x, lp_vars, solve_vars, simplex_vars>>

UpdateInequalities ==
  /\ qp_calls < MaxCalls
  /\ \E blk \in QPIneqSet :
       \E args \in {[qp_given EXCEPT !.C = IMat(blk[1], qp.nx),
                                     !.d = IVec(blk[2])]} :
         \E res \in {updateInequalities(qp, args.C, args.d)} :
           /\ qp' = res.s
           /\ qp_ret' = res.ok
           /\ qp_args' = args
           /\ qp_given' = IF res.ok THEN args ELSE NoConstraints(qp.nx)
  /\ qp_op' = "updateInequalities"
  /\ qp_had_active' = (Len(qp.active) > 0)
  /\ qp_calls' = qp_calls + 1
  /\ UNCHANGED <<qp_x, lp_vars, solve_vars, simplex_vars>>

ResetActiveSet ==
  /\ qp_calls < MaxCalls
  /\ qp' = resetActiveSet(qp)
  /\ qp_op' = "resetActiveSet"
  /\ qp_ret' = TRUE
  /\ qp_had_active' = (Len(qp.active) > 0)
  /\ qp_calls' = qp_calls + 1
  /\ qp_args' = NoConstraints(qp.nx)
  /\ UNCHANGED <<qp_x, qp_given, lp_vars, solve_vars, simplex_vars>>

ClearConstraints ==
  /\ qp_calls < MaxCalls
  /\ qp' = clearConstraints(qp)
  /\ qp_op' = "clearConstraints"
  /\ qp_ret' = TRUE
  /\ qp_args' = NoConstraints(qp.nx)
  /\ qp_given' = NoConstraints(qp.nx)
  /\ qp_had_active' = (Len(qp.active) > 0)
  /\ qp_calls' = qp_calls + 1
  /\ UNCHANGED <<qp_x, lp_vars, solve_vars, simplex_vars>>

\* A solve that gives up with the exception leaves qp_ret = "thrown".
Solve ==
  /\ qp_calls < MaxCalls
  /\ \E res \in {solve(qp, qp_x)} :
       /\ qp' = res.s
       /\ qp_x' = res.x
       /\ qp_ret' = IF res.thrown THEN "thrown" ELSE res.ok
  /\ qp_op' = "solve"
  /\ qp_args' = NoConstraints(qp.nx)
  /\ qp_had_active' = (Len(qp.active) > 0)
  /\ qp_calls' = qp_calls + 1
  /\ UNCHANGED <<qp_given, lp_vars, solve_vars, simplex_vars>>

NextQP ==
  \/ UpdateObjective
  \/ SetConstraints
  \/ SetInequalityConstraints
  \/ UpdateInequalities
  \/ ResetActiveSet
  \/ ClearConstraints
  \/ Solve

SpecQP == InitQP /\ [][NextQP]_vars

(***************************************************************************)
(* One solver, constructed and given constraints it accepts, on which      *)
(* solve is called and followed pass by pass through the loop of solveY.   *)
(***************************************************************************)
\* The number of solve calls made one after the other.
MaxSolves == 2

\* The count the loop gives up at: 1e6 in the code, small here so that the
\* runs explored include some that exceed it.
IterationCap == 2

\* Inequality blocks <<C, d>> that take the loop through several passes: a
\* corner, a wedge at whose tip the first constraint met has to be released,
\* a triangle and a square around the origin.
SolveIneqSet == QPIneqSet \cup
  { << << <<1, 0>>, <<0, 1>> >>, <<1, 0>> >>,
    << << <<0, 1>>, <<1, 2>> >>, <<0, 1>> >>,
    << << <<1, 1>>, <<-1, 0>>, <<0, -1>> >>, <<1, 0, 0>> >>,
    << << <<1, 0>>, <<0, 1>>, <<-1, 0>>, <<0, -1>> >>, <<1, 1, 1, 1>> >> }

\* A bound that lies below zero by less than the tolerance: x2 <= -1/101,
\* which the origin violates by less than tol.
SolveMarginBlock == [C |-> IMat(<< <<0, 1>> >>, 2), d |-> << <<-1, 101>> >>]

SolveBlocks ==
  {[C |-> IMat(blk[1], 2), d |-> IVec(blk[2])] : blk \in SolveIneqSet}
    \cup {SolveMarginBlock}

InitSolve ==
  /\ \E obj \in QPObjectiveSet, eq \in {<< << >>, << >> >>} \cup QPEqSet,
        blk \in SolveBlocks, sgn \in {1, -1} :
       \E args \in {[A |-> IMat(eq[1], 2), b |-> IVec(eq[2]),
                      C |-> blk.C, d |-> blk.d]} :
         /\ Rank(args.A) = 1 \/ sgn = 1
         /\ \E res \in {setConstraints(Solver(IMat(obj[1], 2), IVec(obj[2])),
                                       args.A, args.b, args.C, args.d, sgn)} :
              /\ res.ok
              /\ qp = res.s
              /\ qp_args = args
              /\ qp_given = args
  /\ qp_x = << >>
  /\ qp_op = "setConstraints"
  /\ qp_ret = TRUE
  /\ qp_had_active = FALSE
  /\ qp_calls = 0
  /\ IdleLP
  /\ IdleSolve

\* solve is called: the returns made before the loop, or the entry into it.
BeginSolve ==
  /\ solve_pc \in {"idle", "returned"}
  /\ qp_calls < MaxSolves
  /\ IF qp.ny = 0 \/ qp.mi = 0
     THEN \E res \in {solve(qp, qp_x)} :
            /\ qp' = res.s
            /\ qp_x' = res.x
            /\ qp_ret' = res.ok
            /\ solve_pc' = "returned"
     ELSE \E g \in {solveY_start(qp, qp_x)} :
            /\ qp' = g.s
            /\ qp_ret' = g.ok
            /\ solve_pc' = IF g.ok THEN "loop" ELSE "failed"
            /\ UNCHANGED qp_x
  /\ iters' = 0
  /\ qp_op' = "solve"
  /\ qp_args' = NoConstraints(qp.nx)
  /\ qp_had_active' = (Len(qp.active) > 0)
  /\ qp_calls' = qp_calls + 1
  /\ UNCHANGED <<qp_given, lp_vars, simplex_vars>>

\* One pass of the loop: the test of the count, which is incremented, then
\* the body; the last pass returns through the end of solve.
IterateSolve ==
  /\ solve_pc = "loop"
  /\ iters' = iters + 1
  /\ IF too_many_iterations(iters, IterationCap)
     THEN /\ solve_pc' = "thrown"
          /\ qp_ret' = "thrown"
          /\ UNCHANGED <<qp, qp_x>>
     ELSE \E it \in {solveY_iteration(qp)} :
            /\ qp' = it.s
            /\ solve_pc' = IF it.done THEN "returned" ELSE "loop"
            /\ qp_x' = IF ~it.done THEN qp_x
                       ELSE IF qp.me > 0
                            THEN VAdd(MVec(qp.Z, it.s.yk), qp.xeq)
                            ELSE it.s.yk
            /\ UNCHANGED qp_ret
  /\ UNCHANGED <<qp_op, qp_args, qp_given, qp_had_active, qp_calls, lp_vars,
                 simplex_vars>>

NextSolve ==
  \/ BeginSolve
  \/ IterateSolve

SpecSolve == InitSolve /\ [][NextSolve]_vars

\* What IterateSolve does to the count: it is enabled wherever IterateSolve
\* is, and no other action counts a pass.
LoopPass ==
  /\ solve_pc = "loop"
  /\ iters' = iters + 1

\* A call that has entered the loop keeps running: the loop has no wait, so
\* the next pass is always begun.
SpecSolveLive == SpecSolve /\ WF_iters(LoopPass)

(***************************************************************************)
(* One inequality-only minimize that has reached its method, followed      *)
(* pivot by pivot through the inner loop and the replacement of the basic  *)
(* artificial variables.                                                   *)
(***************************************************************************)
\* The inequality-only problems of InitLP that have a row.
SimplexProblems ==
  UNION {{[f |-> IVec(f), A |-> IMat(<< >>, 2), b |-> IVec(<< >>),
           C |-> IMat(rows, 2), d |-> IVec(rhs)] :
            f \in ObjectiveSet, rows \in [1..m -> RowSet],
            rhs \in [1..m -> RhsSet]} : m \in 1..MaxIneq}

\* A problem whose coefficients differ by more than 1/small_number: minimize
\* -1000 x1 - x2 subject to 2000 x1 + x2 <= 2000, x2 <= 3000.
IllScaledProblem ==
  [f |-> IVec(<<-1000, -1>>), A |-> IMat(<< >>, 2), b |-> IVec(<< >>),
   C |-> IMat(<< <<2000, 1>>, <<0, 1>> >>, 2), d |-> IVec(<<2000, 3000>>)]

InitSimplex ==
  /\ \E prob \in SimplexProblems \cup {IllScaledProblem}, method \in Methods :
           \E en \in {method_entry(prob.f, prob.C, prob.d, small_number)} :
             /\ en.ok
             /\ lp = prob
             /\ \E st \in {method_start(en.objective, en.tableau,
                                         en.basic_variables, en.na,
                                         large_of(method))} :
                  sx = [pc |-> "simplex", stage |-> st.stage,
                        tableau |-> st.tableau,
                        basic_variables |-> en.basic_variables,
                        objective |-> en.objective, na |-> en.na,
                        nv |-> en.nv, row |-> 0, pivots |-> 0, pivoted |-> ""]
  /\ lp_sgn = 1
  /\ lp_called = Methods
  /\ lp_x = [m \in Methods |-> x_before]
  /\ lp_ok = [m \in Methods |-> FALSE]
  /\ lp_halt = [m \in Methods |-> ""]
  /\ lp_tableau = [m \in Methods |-> MZero(0, 0)]
  /\ lp_proj = NoProjection
  /\ IdleQP

\* The inner loop tests its condition and, if it holds, pivots once; when
\* the loop ends the method goes on with what follows that run.
SimplexPass ==
  /\ sx.pc = "simplex"
  /\ sx.pivots < MaxPivots
  /\ \E it \in {simplex_iteration(sx.tableau, sx.basic_variables,
                                   small_number)} :
       sx' = IF ~it.done
             THEN [sx EXCEPT !.tableau = it.tableau,
                             !.basic_variables = it.basic_variables,
                             !.pivots = @ + 1, !.pivoted = "loop"]
             ELSE IF ~it.ok
             THEN [sx EXCEPT !.pc = "failed", !.pivoted = ""]
             ELSE IF /\ sx.stage # "second"
                     /\ artificial_left(sx.tableau, sx.basic_variables,
                                        sx.nv, small_number)
             THEN [sx EXCEPT !.pc = "failed", !.pivoted = ""]
             ELSE IF sx.stage = "first"
             THEN [sx EXCEPT !.pc = "swap", !.row = 1, !.pivoted = ""]
             ELSE [sx EXCEPT !.pc = "done", !.pivoted = ""]
  /\ UNCHANGED <<lp_vars, qp_vars, solve_vars>>

\* The loop that replaces the basic artificial variables looks at one row,
\* or ends and the second step is set up.
SwapPass ==
  /\ sx.pc = "swap"
  /\ IF sx.row > sx.tableau.nr - 1
     THEN sx' = [sx EXCEPT !.pc = "simplex", !.stage = "second",
                           !.tableau = second_step_tableau(
                                         sx.objective, sx.tableau,
                                         sx.basic_variables, sx.nv),
                           !.pivoted = ""]
     ELSE \E sw \in {swap_step(sx.tableau, sx.basic_variables, sx.nv,
                                sx.row, small_number)} :
            sx' = IF ~sw.ok
                  THEN [sx EXCEPT !.pc = "failed", !.pivoted = ""]
                  ELSE [sx EXCEPT !.tableau = sw.tableau,
                                  !.basic_variables = sw.basic_variables,
                                  !.row = @ + 1,
                                  !.pivots = IF sw.pivoted THEN @ + 1 ELSE @,
                                  !.pivoted = IF sw.pivoted THEN "swap" ELSE ""]
  /\ UNCHANGED <<lp_vars, qp_vars, solve_vars>>

NextSimplex ==
  \/ SimplexPass
  \/ SwapPass

SpecSimplex == InitSimplex /\ [][NextSimplex]_vars

(***************************************************************************)
(* Properties of the linear-programming calls.                             *)
(***************************************************************************)
LPFeasibleNow == LPFeasible(lp.A, lp.b, lp.C, lp.d, Len(lp.f))
LPHasOptimumNow == LPHasOptimum(lp.f, lp.A, lp.b, lp.C, lp.d, Len(lp.f))
LPOptimumNow == LPOptimum(lp.f, lp.A, lp.b, lp.C, lp.d, Len(lp.f))
LPValue(method) == Dot(lp.f, lp_x[method])
\* The equalities are consistent and leave no freedom (Z has no columns).
FullyDetermined ==
  /\ lp.A.nr > 0
  /\ Rank(lp.A) = lp.A.nc
  /\ IsZeroVec(VSub(MVec(lp.A, SvdSolve(lp.A, lp.b)), lp.b), small_number)

\* C1: whenever minimize returns true, by either method and in either form,
\* the returned x satisfies C x <= d + small_number in every row and
\* A x = b within small_number.
C1_SuccessIsFeasible ==
  \A method \in lp_called :
    lp_ok[method] =>
      /\ SatisfiesIneq(lp.C, lp.d, lp_x[method], small_number)
      /\ SatisfiesEq(lp.A, lp.b, lp_x[method], small_number)

\* C2: in the full form, when the equalities are consistent and determine x
\* completely, the call returns true with x = x_eq if and only if
\* C x_eq <= d, and returns false otherwise.
C2_DeterminedChecksInequalities ==
  \A method \in lp_called :
    FullyDetermined =>
      LET xeq == SvdSolve(lp.A, lp.b)
      IN  (lp_ok[method] /\ lp_x[method] = xeq)
            <=> SatisfiesIneq(lp.C, lp.d, xeq, Zero)

\* C3: minimize returns true exactly when an optimal solution exists: the
\* feasible set is non-empty and the objective is bounded below on it.
C3_TrueIffOptimumExists ==
  \A method \in lp_called : lp_ok[method] <=> LPHasOptimumNow

NormSq(v) == Dot(v, v)

\* The rows of [A; C restricted to S] and their right-hand sides.
TightSystem(A, b, C, d, S) ==
  LET idx == {i \in 1..C.nr : i \in S}
      pick[k \in 0..C.nr] ==
        IF k = 0 THEN << >>
        ELSE IF k \in idx THEN Append(pick[k - 1], k) ELSE pick[k - 1]
      rows == pick[C.nr]
  IN  [G |-> Mat(A.nr + Len(rows), A.nc,
                 A.e \o [k \in 1..Len(rows) |-> C.e[rows[k]]]),
       h |-> b \o Eager([k \in 1..Len(rows) |-> d[rows[k]]])]

\* The minimiser of |Q x - r| over {x : G x = h}, when there is one.
AffineMinimiser(Q, r, G, h) ==
  IF G.nr = 0 THEN [ok |-> TRUE, x |-> SvdSolve(Q, r)]
  ELSE
    LET x0 == SvdSolve(G, h)
        N == MSub(MIdentity(G.nc), MMul(PInv(G), G))
    IN  [ok |-> MVec(G, x0) = h,
         x |-> VAdd(x0, MVec(N, SvdSolve(MMul(Q, N), VSub(r, MVec(Q, x0)))))]

\* The feasible minimisers over the affine sets of all subsets of C's rows.
QPCandidates(Q, r, A, b, C, d) ==
  LET try(S) == LET t == TightSystem(A, b, C, d, S)
                IN  AffineMinimiser(Q, r, t.G, t.h)
  IN  {try(S).x : S \in {T \in SUBSET (1..C.nr) :
                           /\ try(T).ok
                           /\ SatisfiesEq(A, b, try(T).x, Zero)
                           /\ SatisfiesIneq(C, d, try(T).x, Zero)}}

\* min |Q x - r|^2 over {x : A x = b, C x <= d}, which must not be empty.
QPOptimumSq(Q, r, A, b, C, d) ==
  LET vals == {NormSq(VSub(MVec(Q, x), r)) : x \in QPCandidates(Q, r, A, b, C, d)}
  IN  CHOOSE v \in vals : \A w \in vals : RLe(v, w)

GivenFeasible ==
  LPFeasible(qp_given.A, qp_given.b, qp_given.C, qp_given.d, qp.nx)
ArgsFeasible ==
  LPFeasible(qp_args.A, qp_args.b, qp_args.C, qp_args.d, qp.nx)
\* Some x satisfies A x = b and C x <= d - tol in every row.
ArgsFeasibleWithMargin ==
  LPFeasible(qp_args.A, qp_args.b, qp_args.C, with_margin(qp_args.d), qp.nx)

\* C6: whenever solve returns true, x satisfies the constraints the solver
\* holds: A x = b within tol and C x <= d + tol in every row.
C6_SolutionIsFeasible ==
  (qp_op = "solve" /\ qp_ret = TRUE) =>
    /\ SatisfiesEq(qp_given.A, qp_given.b, qp_x, tol)
    /\ SatisfiesIneq(qp_given.C, qp_given.d, qp_x, tol)

\* C7: whenever solve returns true, x minimises |Q x - r| over the
\* constraints the solver holds (compared on the squares, within tol).
C7_SolutionIsOptimal ==
  (qp_op = "solve" /\ qp_ret = TRUE /\ GivenFeasible) =>
    RLe(NormSq(VSub(MVec(qp.Q, qp_x), qp.r)),
        RAdd(QPOptimumSq(qp.Q, qp.r, qp_given.A, qp_given.b,
                         qp_given.C, qp_given.d), tol))

C9_RejectionClears ==
  (qp_op = "setConstraints" /\ qp_ret = FALSE) =>
    /\ qp.me = 0 /\ qp.mi = 0 /\ qp.ny = qp.nx
    /\ qp.Z = MIdentity(qp.nx) /\ qp.xeq = VZero(qp.nx)
    /\ qp.active = << >>
    /\ LET res == solve(qp, qp_x)
       IN  res.ok /\ res.x = SvdSolve(qp.Q, qp.r)

\* setConstraints rejected a set with equalities on a solver whose active set
\* was not empty.
C9_Witness ==
  /\ qp_op = "setConstraints" /\ qp_ret = FALSE
  /\ qp_args.A.nr > 0
  /\ qp_had_active

\* C10: every setConstraints that returns true leaves the active set reset:
\* active empty, Ca and da without rows (Ca with ny columns), and
\* inactive = [0, ..., mi-1].
C10_AcceptanceResetsActiveSet ==
  (qp_op = "setConstraints" /\ qp_ret = TRUE) =>
    /\ qp.active = << >>
    /\ qp.Ca.nr = 0 /\ qp.Ca.nc = qp.ny
    /\ qp.da = << >>
    /\ qp.inactive = [i \in 1..qp.mi |-> i - 1]

\* C11: a call of updateInequalities giving as many rows as the solver
\* stores returns true and changes nothing of the solver but Cy and dy: the
\* point yk, the active and inactive sets and Ca, da are the ones from before.
C11_SameRowsOnlyReplaces ==
  [][(qp_op' = "updateInequalities" /\ qp_args'.C.nr = qp.mi)
       => /\ qp_ret' = TRUE
          /\ qp' = [qp EXCEPT !.Cy = qp'.Cy, !.dy = qp'.dy]
          /\ qp'.yk = qp.yk /\ qp'.active = qp.active
          /\ qp'.inactive = qp.inactive
          /\ qp'.Ca = qp.Ca /\ qp'.da = qp.da]_vars

\* An update with the stored number of rows, a positive one, has been
\* made on a solver holding active constraints, which it still holds.
C11_Witness ==
  /\ qp_op = "updateInequalities"
  /\ qp_args.C.nr = qp.mi
  /\ qp.mi > 0
  /\ qp_had_active
  /\ Len(qp.active) > 0

\* C12: a call of updateInequalities never removes the equality constraints
\* the solver holds: me, Z and xeq are after the call what they were before
\* it, whether the call returns true or false.
C12_EqualitiesKept ==
  [][qp_op' = "updateInequalities"
       => /\ qp'.me = qp.me
          /\ qp'.Z = qp.Z
          /\ qp'.xeq = qp.xeq]_vars

\* The point yk the solver stores satisfies the stored inequalities within
\* the tolerance: Cy yk - dy <= tol in every row.
StoredPointFeasible ==
  /\ Len(qp.yk) = qp.ny
  /\ qp.Cy.nc = qp.ny
  /\ RLe(violation(qp.Cy, qp.dy, qp.yk), tol)

\* C13: the point yk is kept from one solve to the next: when a solve begins
\* on a solver with inequalities whose stored yk satisfies
\* Cy yk - dy <= tol, the active-set iteration starts from that stored yk.
C13_StartsFromStoredPoint ==
  (qp.mi > 0 /\ qp.ny > 0 /\ StoredPointFeasible)
    => /\ solveY_start(qp, qp_x).ok
       /\ solveY_start(qp, qp_x).s.yk = qp.yk

\* The least-squares minimiser of |Q x - r| on the set A x = b the solver
\* holds, written with the particular solution and the kernel basis stored.
EqualityConstrainedMinimiser ==
  VAdd(qp.xeq,
       MVec(qp.Z, SvdSolve(MMul(qp.Q, qp.Z), VSub(qp.r, MVec(qp.Q, qp.xeq)))))

\* C14: on a solver without inequalities (mi = 0) that has free variables
\* (ny > 0), solve returns true with x = xeq + Z yu, yu the unconstrained
\* minimiser of the reduced objective, whatever yk and the active-set data
\* left by earlier calls are; without equalities x is pinv(Q) r of the
\* current objective.
C14_NoInequalitiesIsLeastSquares ==
  (qp_op = "solve" /\ qp.mi = 0 /\ qp.ny > 0)
    => /\ qp_ret = TRUE
       /\ qp.yu = SvdSolve(qp.Qy, qp.ry)
       /\ qp_x = IF qp.me > 0 THEN VAdd(qp.xeq, MVec(qp.Z, qp.yu)) ELSE qp.yu
       /\ qp_x = EqualityConstrainedMinimiser
       /\ qp.me = 0 => qp_x = MVec(PInv(qp.Q), qp.r)

\* A solve has returned on a solver without inequalities that still holds
\* active constraints and a non-zero yk of earlier calls.
C14_Witness ==
  /\ qp_op = "solve"
  /\ qp.mi = 0
  /\ qp.ny > 0
  /\ qp_had_active
  /\ Len(qp.active) > 0
  /\ ~IsZeroExact(qp.yk)
  /\ qp_x # qp.yk

\* C15: the active-set loop does not run without bound: a solve that has
\* entered the loop returns or gives up with the exception, and it never
\* makes more passes than one past the count the code gives up at.
C15_LoopEnds ==
  /\ [](solve_pc # "thrown" => iters <= IterationCap + 1)
  /\ (solve_pc = "loop") ~> (solve_pc \in {"returned", "thrown"})

\* A solve has given up with the exception after the passes allowed.
C15_Witness ==
  /\ solve_pc = "thrown"
  /\ iters = IterationCap + 2

\* The problem has an inequality row whose coefficients are all within
\* small_number of zero and whose bound is negative.
HasInfeasibleDegenerateRow == infeasible_degenerate(lp.C, lp.d, small_number)

\* C16: a linear program with an inequality row 0 x <= d_i, d_i < 0, makes
\* minimize return false, by either method and in either form; the
\* inequality-only form returns at that row, before any tableau is built.
C16_DegenerateRowRejected ==
  \A method \in lp_called :
    HasInfeasibleDegenerateRow =>
      /\ ~lp_ok[method]
      /\ lp.A.nr = 0 =>
           lp_halt[method] = "Found infeasible degenerate constraint"

\* C17: the inequality-only minimize called without any constraint row
\* returns false and reports the problem as ill-defined, whatever the
\* objective (the zero objective included), and leaves x as it was.
C17_NoConstraintsIsIllDefined ==
  \A method \in lp_called :
    (lp.A.nr = 0 /\ lp.C.nr = 0) =>
      /\ ~lp_ok[method]
      /\ lp_halt[method] = "No constraints given, the problem is ill-defined"
      /\ lp_x[method] = x_before

\* Both methods have been run on the zero objective without constraints.
C17_Witness ==
  /\ lp.A.nr = 0
  /\ lp.C.nr = 0
  /\ IsZeroExact(lp.f)
  /\ lp_called = Methods
  /\ \A method \in Methods : ~lp_ok[method]

\* The tableau the inner simplex loop of the call has stopped on, if the call
\* has come to run it.
SimplexRan(method) == lp_tableau[method].nr > 0

\* In the tableau t the column that simplex() selects has an objective
\* coefficient below -small_number and no entry above small_number in a
\* constraint row.
NoLeavingRow(t) ==
  LET m == t.nr - 1
      n == t.nc - 1
      entering_col == MinCoeffIndex(SubSeq(t.e[m + 1], 1, n))
  IN  /\ RLt(t.e[m + 1][entering_col], RNeg(small_number))
      /\ \A row \in 1..m : ~RLt(small_number, t.e[row][entering_col])

\* The call has returned false because the inner loop found the problem
\* unbounded.
HaltedUnbounded(method) ==
  /\ ~lp_ok[method]
  /\ lp_halt[method] =
       IF lp.A.nr = 0 THEN "unbounded"
       ELSE "Failed to solve the inequality constrained sub-problem: "
              \o "unbounded"

\* C18: the inner simplex loop returns false as unbounded exactly when the
\* column it selects to enter has no entry above small_number in any
\* constraint row; so does minimize on f = (-1, 0), C = [0 1], d = (1), by
\* either method.
C18_UnboundedIffNoLeavingRow ==
  \A method \in lp_called :
    /\ SimplexRan(method) =>
         (HaltedUnbounded(method) <=> NoLeavingRow(lp_tableau[method]))
    /\ (/\ lp.f = IVec(<<-1, 0>>)
        /\ lp.A.nr = 0
        /\ lp.C = IMat(<< <<0, 1>> >>, 2)
        /\ lp.d = IVec(<<1>>)) => HaltedUnbounded(method)

\* Both methods have been run on f = (-1, 0), C = [0 1], d = (1) and have
\* stopped on a tableau without a leaving row.
C18_Witness ==
  /\ lp.f = IVec(<<-1, 0>>)
  /\ lp.A.nr = 0
  /\ lp.C = IMat(<< <<0, 1>> >>, 2)
  /\ lp.d = IVec(<<1>>)
  /\ lp_called = Methods
  /\ \A method \in Methods :
       SimplexRan(method) /\ NoLeavingRow(lp_tableau[method])

\* C19: minimize, in either form and by either method, writes the output x
\* only when it returns true: after a false return x holds the value it
\* had before the call.
C19_FalseReturnKeepsX ==
  \A method \in lp_called : ~lp_ok[method] => lp_x[method] = x_before

\* The full form has returned false by both methods after its inner call
\* ran the simplex loop, on equalities whose particular solution is not zero.
C19_Witness ==
  /\ lp_called = Methods
  /\ \A method \in Methods : ~lp_ok[method] /\ SimplexRan(method)
  /\ lp.A.nr > 0
  /\ ~IsZeroExact(SvdSolve(lp.A, lp.b))

RowsOf(seq) == {seq[k] : k \in 1..Len(seq)}
NoDuplicates(seq) == \A j, k \in 1..Len(seq) : seq[j] = seq[k] => j = k

\* C21: in every state reached through the public operations of the solver,
\* active and inactive have no row in common, hold no row twice, and hold
\* together exactly the rows 0 .. mi-1.
C21_ActiveInactivePartition ==
  qp_op # "" =>
    /\ RowsOf(qp.active) \cap RowsOf(qp.inactive) = {}
    /\ NoDuplicates(qp.active)
    /\ NoDuplicates(qp.inactive)
    /\ RowsOf(qp.active) \cup RowsOf(qp.inactive) = 0..(qp.mi - 1)

\* C22: in every state reached through the public operations of the solver,
\* Ca and da are the rows of the stored Cy and dy that active names, in the
\* order of active: Ca has as many rows as active has entries, row k of Ca is
\* row active[k] of Cy and da[k] is dy[active[k]].
C22_ActiveRowsAreStoredRows ==
  qp_op # "" =>
    /\ qp.Ca.nr = Len(qp.active)
    /\ Len(qp.da) = Len(qp.active)
    /\ \A k \in 1..Len(qp.active) :
         /\ qp.active[k] + 1 \in 1..qp.Cy.nr
         /\ qp.Ca.e[k] = qp.Cy.e[qp.active[k] + 1]
         /\ qp.da[k] = qp.dy[qp.active[k] + 1]

\* Every active constraint holds with equality at the stored yk, within the
\* tolerance.
ActiveRowsTight ==
  /\ qp.Ca.nc = Len(qp.yk)
  /\ Len(qp.da) = qp.Ca.nr
  /\ IsZeroVec(VSub(MVec(qp.Ca, qp.yk), qp.da), tol)

\* The Lagrange multipliers of the active constraints at the stored yk (half
\* of them, as the code computes them) are non-negative within the tolerance.
MultipliersNonNegative ==
  \A k \in 1..Len(qp.active) : RLe(RNeg(tol), half_multipliers(qp)[k])

\* C23: whenever solve returns true with a non-empty active set, the iterate
\* it returns is a KKT point: every active constraint is tight at yk and the
\* multiplier of every active constraint, the last of active included, is
\* non-negative within the tolerance.
C23_ReturnIsKKT ==
  (qp_op = "solve" /\ qp_ret = TRUE /\ Len(qp.active) > 0)
    => (ActiveRowsTight /\ MultipliersNonNegative)


\* |Qy*yk - ry|^2 at the iterate of a solver state.
ReducedObjective(s) == NormSq(VSub(MVec(s.Qy, s.yk), s.ry))

\* C24: within one solve call the objective |Qy*yk - ry|^2 never increases
\* from one pass of the active-set loop to the next.
C24_ObjectiveNeverIncreases ==
  [][(solve_pc = "loop" /\ solve_pc' \in {"loop", "returned"})
       => RLe(ReducedObjective(qp'), ReducedObjective(qp))]_vars


\* A pass of the loop that releases a constraint.
DeactivationStep ==
  /\ solve_pc = "loop"
  /\ solve_pc' = "loop"
  /\ Len(qp'.active) = Len(qp.active) - 1

\* The multipliers the pass computes: at the iterate after the full step,
\* with the active rows it began with.
StepMultipliers == half_multipliers([qp EXCEPT !.yk = qp'.yk])

DeducedDomains == deduce_variables_domains(lp.C, lp.d, small_number)

\* C26: when domain deduction succeeds no variable has both non_negative and
\* non_positive set, whatever the order of the rows.
C26_NeverBothFlags ==
  (lp.A.nr = 0 /\ lp_called # {} /\ DeducedDomains.ok)
    => \A i \in 1..Len(DeducedDomains.domains) :
         ~(/\ DeducedDomains.domains[i].non_negative
           /\ DeducedDomains.domains[i].non_positive)


\* A method is being followed, so sx holds a tableau.
HasTableau == sx.pc \in {"simplex", "swap", "done", "failed"}

ConstraintRows == 1..(sx.tableau.nr - 1)

\* C27: from the first tableau on and after every pivot, the column of the
\* basic variable of each row is a unit vector in the constraint rows, with
\* a zero in the objective row whenever the inner loop is about to test its
\* condition, and the basic variables are pairwise distinct.
C27_BasicColumnsAreUnit ==
  HasTableau =>
    /\ \A i \in ConstraintRows :
         /\ sx.basic_variables[i] \in 1..(sx.tableau.nc - 1)
         /\ \A k \in ConstraintRows :
              sx.tableau.e[k][sx.basic_variables[i]]
                = IF k = i THEN One ELSE Zero
         /\ sx.pc = "simplex"
              => sx.tableau.e[sx.tableau.nr][sx.basic_variables[i]] = Zero
    /\ \A i, k \in ConstraintRows :
         sx.basic_variables[i] = sx.basic_variables[k] => i = k

\* A basic artificial variable of value zero has just been replaced, after
\* pivots of the inner loop.
C27_Witness ==
  /\ sx.pivoted = "swap"
  /\ sx.pivots >= 2

\* C28: from the first tableau on and after every pivot, the right-hand
\* side of every constraint row is non-negative.
C28_RhsNonNegative ==
  HasTableau =>
    \A i \in ConstraintRows : RLe(Zero, sx.tableau.e[i][sx.tableau.nc])


\* C29: a solve that follows a successful solve directly, with an inequality
\* stored, returns true with the same x.
C29_SecondSolveSameResult ==
  [][(qp_op = "solve" /\ qp_ret = TRUE /\ qp.mi > 0 /\ qp_op' = "solve")
       => (qp_ret' = TRUE /\ qp_x' = qp_x)]_vars


\* The rows of the stored inequalities in reverse order.
ReversedRows ==
  [C |-> Mat(lp.C.nr, lp.C.nc,
             [i \in 1..lp.C.nr |-> lp.C.e[lp.C.nr + 1 - i]]),
   d |-> Eager([i \in 1..lp.C.nr |-> lp.d[lp.C.nr + 1 - i]])]

\* The inequality-only call of a method on the rows in reverse order.
MinimizeReversed(method) ==
  minimize_ineq(lp.f, ReversedRows.C, ReversedRows.d, x_before, small_number,
                large_of(method))

\* C30: the inequality-only minimize gives the same verdict and, on
\* success, the same objective value when the rows of C and d are permuted.
C30_RowOrderIrrelevant ==
  \A method \in lp_called :
    (lp.A.nr = 0 /\ lp.C.nr = 2 /\ lp_proj = NoProjection)
      => /\ MinimizeReversed(method).ok = lp_ok[method]
         /\ lp_ok[method]
              => Dot(lp.f, MinimizeReversed(method).x) = LPValue(method)

=============================================================================
